---- MODULE Spec2Model ----
(***************************************************************************)
(* RouteX (PurpleSec/RouteX): the regular-expression request router.       *)
(*                                                                         *)
(* The model holds the Mux route table, its read/write lock, the workers   *)
(* that call Mux.Add and Mux.ServeHTTP, and the lookup Mux.handler.        *)
(*                                                                         *)
(* Strings of the request path are sequences of one-character strings.     *)
(* A pattern is the sequence of the tokens its source text consists of;    *)
(* String(p) is the source text (what regexp.Regexp.String returns) and    *)
(* FindStringSubmatch(p, s) is the leftmost-first, unanchored search that  *)
(* regexp.Regexp.FindStringSubmatch performs.                              *)
(***************************************************************************)
EXTENDS Integers, Sequences, FiniteSets, TLC

(***************************************************************************)
(* Bounds of the model.                                                    *)
(***************************************************************************)
\* registrations that pass the argument checks and reach the table lock
MaxAdds == 2
\* workers of the concurrent specification
NumWorkers == 2
\* the middleware functions registered in one run
MaxWares == 2
\* the registration calls of the specification of equally long patterns
MaxRoutes == 7
\* the longest request path of the specification of clean
MaxPathLen == 5
\* panics of middleware and handlers in one run
MaxFaults == 1
\* the Validators of a Set
MaxValidators == 2

Workers == 1 .. NumWorkers

\* the nil *handler / nil Handler
NoHandler == 0

(***************************************************************************)
(* Regular expressions.                                                    *)
(***************************************************************************)
Bol == [k |-> "bol", cls |-> {}, name |-> "", txt |-> "^"]
Eol == [k |-> "eol", cls |-> {}, name |-> "", txt |-> "$"]
Lit(c) == [k |-> "lit", cls |-> {c}, name |-> "", txt |-> c]
\* an unnamed capture group ( x+ ) or ( [xy]+ ) and a named one (?P<n> ... )
Grp(cls, txt) == [k |-> "grp", cls |-> cls, name |-> "", txt |-> "(" \o txt \o ")"]
Named(n, cls, txt) ==
    [k |-> "grp", cls |-> cls, name |-> n, txt |-> "(?P<" \o n \o ">" \o txt \o ")"]
\* an opening parenthesis that is never closed: regexp.Compile rejects it
Bad == [k |-> "bad", cls |-> {}, name |-> "", txt |-> "("]

\* regexp.Regexp.String: the source text the expression was compiled from
RECURSIVE String(_)
String(p) == IF p = <<>> THEN "" ELSE Head(p).txt \o String(Tail(p))

\* regexp.Compile succeeds
Compiles(p) == \A i \in 1 .. Len(p) : p[i].k # "bad"

\* regexp.Regexp.SubexpNames: "" for the whole match, then one name per group
RECURSIVE GroupNames(_)
GroupNames(p) ==
    IF p = <<>> THEN <<>>
    ELSE (IF Head(p).k = "grp" THEN <<Head(p).name>> ELSE <<>>) \o GroupNames(Tail(p))

SubexpNames(p) == <<"">> \o GroupNames(p)

NoMatch == [ok |-> FALSE, end |-> 0, caps |-> <<>>]

\* the number of consecutive characters of s after position pos that are in cls
RECURSIVE RunLen(_, _, _)
RunLen(s, pos, cls) ==
    IF pos < Len(s) /\ s[pos + 1] \in cls THEN 1 + RunLen(s, pos + 1, cls) ELSE 0

\* match the tokens k.. of p against s from position pos; a group x+ is greedy
\* and gives characters back one at a time (leftmost-first semantics)
RECURSIVE MatchFrom(_, _, _, _)
RECURSIVE TryGroup(_, _, _, _, _)
MatchFrom(p, k, s, pos) ==
    IF k > Len(p) THEN [ok |-> TRUE, end |-> pos, caps |-> <<>>]
    ELSE CASE p[k].k = "bol" -> IF pos = 0 THEN MatchFrom(p, k + 1, s, pos) ELSE NoMatch
           [] p[k].k = "eol" ->
                IF pos = Len(s) THEN MatchFrom(p, k + 1, s, pos) ELSE NoMatch
           [] p[k].k = "lit" ->
                IF pos < Len(s) /\ s[pos + 1] \in p[k].cls
                THEN MatchFrom(p, k + 1, s, pos + 1)
                ELSE NoMatch
           [] p[k].k = "grp" -> TryGroup(p, k, s, pos, RunLen(s, pos, p[k].cls))
           [] OTHER -> NoMatch

TryGroup(p, k, s, pos, n) ==
    IF n < 1 THEN NoMatch
    ELSE LET r == MatchFrom(p, k + 1, s, pos + n)
         IN  IF r.ok
             THEN [ok |-> TRUE, end |-> r.end,
                   caps |-> <<SubSeq(s, pos + 1, pos + n)>> \o r.caps]
             ELSE TryGroup(p, k, s, pos, n - 1)

\* the search for the leftmost start position, from start on
RECURSIVE FindFrom(_, _, _)
FindFrom(p, s, start) ==
    IF start > Len(s) THEN <<>>
    ELSE LET r == MatchFrom(p, 1, s, start)
         IN  IF r.ok THEN <<SubSeq(s, start + 1, r.end)>> \o r.caps
             ELSE FindFrom(p, s, start + 1)

\* regexp.Regexp.FindStringSubmatch: <<>> (nil) when s holds no match, else the
\* text of the leftmost match followed by the text of every group
FindStringSubmatch(p, s) == FindFrom(p, s, 0)

(***************************************************************************)
(* Path normalisation (clean and the path.Clean it calls).                 *)
(***************************************************************************)
\* the segments of s between its slashes
RECURSIVE Split(_)
Split(s) ==
    IF s = <<>> THEN << <<>> >>
    ELSE LET r == Split(Tail(s))
         IN  IF Head(s) = "/" THEN << <<>> >> \o r
             ELSE << <<Head(s)>> \o Head(r) >> \o Tail(r)

\* drop empty and "." segments, let ".." remove the segment before it
RECURSIVE Resolve(_, _)
Resolve(segs, out) ==
    IF segs = <<>> THEN out
    ELSE LET g == Head(segs)
         IN  IF g = <<>> \/ g = <<".">> THEN Resolve(Tail(segs), out)
             ELSE IF g = <<".", ".">>
                  THEN Resolve(Tail(segs),
                               IF out = <<>> THEN out ELSE SubSeq(out, 1, Len(out) - 1))
                  ELSE Resolve(Tail(segs), Append(out, g))

RECURSIVE Join(_)
Join(segs) == IF segs = <<>> THEN <<>> ELSE <<"/">> \o Head(segs) \o Join(Tail(segs))

\* path.Clean of a rooted path
PathClean(s) ==
    LET segs == Resolve(Split(s), <<>>) IN IF segs = <<>> THEN <<"/">> ELSE Join(segs)

HasPrefix(s, n) == Len(n) <= Len(s) /\ SubSeq(s, 1, Len(n)) = n

\* a clean that, for a path with more than one trailing slash, only drops the
\* last character
cleanTrim(s0) ==
    IF Len(s0) = 0 THEN <<"/">>
    ELSE LET s == IF s0[1] # "/" THEN <<"/">> \o s0 ELSE s0
             n == PathClean(s)
         IN  IF Len(n) > 1 /\ s[Len(s)] = "/" /\ n # <<"/">>
             THEN IF Len(s) = Len(n) + 1 /\ HasPrefix(s, n)
                  THEN s
                  ELSE SubSeq(s, 1, Len(s) - 1)
             ELSE n

\* clean: the path ServeHTTP compares the request path with
clean(s0) ==
    IF Len(s0) = 0 THEN <<"/">>
    ELSE LET s == IF s0[1] # "/" THEN <<"/">> \o s0 ELSE s0
             n == PathClean(s)
         IN  IF Len(n) > 1 /\ s[Len(s)] = "/" /\ n # <<"/">>
             THEN IF Len(s) = Len(n) + 1 /\ HasPrefix(s, n) THEN s ELSE n \o <<"/">>
             ELSE n

(***************************************************************************)
(* The route table: router []*entry, sorted by sort.Sort(m.routes).        *)
(***************************************************************************)
\* an entry with no handler; method is the map from method name to *handler
\* (a nil map and an empty map are the function with the empty domain)
NoMethods == [n \in {} |-> NoHandler]

\* a Less that compares the other way round
LessReversed(r, i, j) == Len(String(r[i].matcher)) > Len(String(r[j].matcher))

\* router.Less
Less(r, i, j) == Len(String(r[i].matcher)) < Len(String(r[j].matcher))

\* router.Swap
Swap(r, i, j) ==
    [k \in 1 .. Len(r) |-> IF k = i THEN r[j] ELSE IF k = j THEN r[i] ELSE r[k]]

\* sort.Sort on a slice of fewer than 12 elements is an insertion sort:
\* for i in a+1..b-1: for j = i; j > a && Less(j, j-1); j-- { Swap(j, j-1) }
RECURSIVE InsertLeft(_, _)
InsertLeft(r, j) ==
    IF j > 1 /\ Less(r, j, j - 1) THEN InsertLeft(Swap(r, j, j - 1), j - 1) ELSE r

RECURSIVE InsertionSort(_, _)
InsertionSort(r, i) ==
    IF i > Len(r) THEN r ELSE InsertionSort(InsertLeft(r, i), i + 1)

Sort(r) == InsertionSort(r, 2)

\* sort.Sort as the Go releases before 1.19 run it on a slice of at most 12
\* elements: one pass that compares and swaps the elements six places apart,
\* then the insertion sort
RECURSIVE ShellPass(_, _)
ShellPass(r, i) ==
    IF i > Len(r) THEN r
    ELSE ShellPass(IF Less(r, i, i - 6) THEN Swap(r, i, i - 6) ELSE r, i + 1)

SortShell(r) == InsertionSort(ShellPass(r, 7), 2)

\* sort.Sort(m.routes) on a table of at most 12 entries: what the builds of the
\* program can produce. sort.Sort does not promise to keep the order of
\* elements that compare equal; the two results are the same up to 6 entries.
SortOutcomes(r) == {Sort(r), SortShell(r)}

\* the index of the first entry whose pattern source is the text path, or 0
RECURSIVE FindEntry(_, _, _)
FindEntry(r, path, i) ==
    IF i > Len(r) THEN 0
    ELSE IF String(r[i].matcher) = path THEN i
         ELSE FindEntry(r, path, i + 1)

\* a loop that starts from a fresh map and so drops the methods set before
RECURSIVE SetMethodsFresh(_, _, _)
SetMethodsFresh(method, methods, v) ==
    IF methods = <<>> THEN [n \in {} |-> NoHandler]
    ELSE LET rest == SetMethodsFresh(method, Tail(methods), v)
         IN  [n \in DOMAIN rest \cup {Head(methods)} |-> v]

\* a loop that leaves a method that already has a handler alone
RECURSIVE SetMethodsKeep(_, _, _)
SetMethodsKeep(method, methods, v) ==
    IF methods = <<>> THEN method
    ELSE SetMethodsKeep([n \in DOMAIN method \cup {Head(methods)} |->
                            IF n \in DOMAIN method THEN method[n] ELSE v],
                        Tail(methods), v)

\* for _, n := range methods { method[n] = v }
RECURSIVE SetMethods(_, _, _)
SetMethods(method, methods, v) ==
    IF methods = <<>> THEN method
    ELSE SetMethods([n \in DOMAIN method \cup {Head(methods)} |->
                        IF n = Head(methods) THEN v ELSE method[n]],
                    Tail(methods), v)

\* the entry Mux.add appends for a pattern that is not in the table yet
FreshEntry(p, methods, v) ==
    IF Len(methods) > 0
    THEN [matcher |-> p, base |-> NoHandler, method |-> SetMethods(NoMethods, methods, v)]
    ELSE [matcher |-> p, base |-> v, method |-> NoMethods]

\* a store that replaces the default handler of an entry that has one
storeOverwrite(r, i, p, methods, v) ==
    IF i # 0
    THEN IF Len(methods) > 0
         THEN [routes |-> [r EXCEPT ![i].method = SetMethods(@, methods, v)],
               err |-> "", h |-> v]
         ELSE [routes |-> [r EXCEPT ![i].base = v],
               err |-> IF r[i].base # NoHandler THEN "exists" ELSE "",
               h |-> IF r[i].base # NoHandler THEN NoHandler ELSE v]
    ELSE [routes |-> Sort(Append(r, FreshEntry(p, methods, v))),
          err |-> "", h |-> v]

\* a store that appends a second entry for a pattern whose entry has no
\* default handler
storeAppend(r, i, p, methods, v) ==
    IF i # 0 /\ Len(methods) > 0
    THEN [routes |-> [r EXCEPT ![i].method = SetMethods(@, methods, v)],
          err |-> "", h |-> v]
    ELSE IF i # 0 /\ r[i].base # NoHandler
    THEN [routes |-> r, err |-> "exists", h |-> NoHandler]
    ELSE [routes |-> Sort(Append(r, FreshEntry(p, methods, v))),
          err |-> "", h |-> v]

\* a store that leaves a method of an entry with the handler it has
storeKeepMethod(r, i, p, methods, v) ==
    IF i # 0
    THEN IF Len(methods) > 0
         THEN [routes |-> [r EXCEPT ![i].method =
                              [n \in DOMAIN SetMethods(@, methods, v) |->
                                  IF n \in DOMAIN @ THEN @[n] ELSE v]],
               err |-> "", h |-> v]
         ELSE IF r[i].base # NoHandler
              THEN [routes |-> r, err |-> "exists", h |-> NoHandler]
              ELSE [routes |-> [r EXCEPT ![i].base = v], err |-> "", h |-> v]
    ELSE [routes |-> Sort(Append(r, FreshEntry(p, methods, v))),
          err |-> "", h |-> v]

\* Mux.add after its loop found the pattern at index i (0: not in the table),
\* to m.lock.Unlock(): the table afterwards, the error ("" for nil) and the
\* *handler returned
store(r, i, p, methods, v) ==
    IF i # 0
    THEN IF Len(methods) > 0
         THEN [routes |-> [r EXCEPT ![i].method = SetMethods(@, methods, v)],
               err |-> "", h |-> v]
         ELSE IF r[i].base # NoHandler
              THEN [routes |-> r, err |-> "exists", h |-> NoHandler]
              ELSE [routes |-> [r EXCEPT ![i].base = v], err |-> "", h |-> v]
    ELSE [routes |-> Sort(Append(r, FreshEntry(p, methods, v))),
          err |-> "", h |-> v]

\* Mux.add from the end of its loop to m.lock.Unlock(), for every result that
\* sort.Sort can give
storeOutcomes(r, i, p, methods, v) ==
    IF i # 0
    THEN {store(r, i, p, methods, v)}
    ELSE {[routes |-> t, err |-> "", h |-> v] :
             t \in SortOutcomes(Append(r, FreshEntry(p, methods, v)))}

\* argument checks that do not look at the method names
AddArgsErrorNoMethod(p, hnil, methods) ==
    IF Len(String(p)) = 0 THEN "ErrInvalidPath"
    ELSE IF hnil THEN "ErrInvalidHandler"
    ELSE IF ~Compiles(p) THEN "compile"
    ELSE ""

\* the checks of Mux.Add and Mux.add that precede the lock; "" when all pass
AddArgsError(p, hnil, methods) ==
    IF Len(String(p)) = 0 THEN "ErrInvalidPath"
    ELSE IF hnil THEN "ErrInvalidHandler"
    ELSE IF ~Compiles(p) THEN "compile"
    ELSE IF \E k \in 1 .. Len(methods) : Len(methods[k]) = 0 THEN "ErrInvalidMethod"
    ELSE ""

(***************************************************************************)
(* Lookup: Mux.handler.                                                    *)
(***************************************************************************)
\* for i := range m.routes: the first entry from i on whose matcher finds a
\* match in s, or 0 when the loop runs off the table
RECURSIVE FirstMatch(_, _, _)
FirstMatch(r, s, i) ==
    IF i > Len(r) THEN 0
    ELSE IF Len(FindStringSubmatch(r[i].matcher, s)) = 0 THEN FirstMatch(r, s, i + 1)
         ELSE i

\* a loop that stores every group, the whole match and the unnamed ones too
RECURSIVE SetValuesAll(_, _, _, _)
SetValuesAll(names, l, z, vals) ==
    IF z > Len(names) THEN vals
    ELSE SetValuesAll(names, l, z + 1,
                      [n \in DOMAIN vals \cup {names[z]} |->
                          IF n = names[z] THEN l[z] ELSE vals[n]])

\* for z, n := range SubexpNames(): skip z == 0 and unnamed groups, else
\* x.Values[n] = l[z]  (z counts from 1 here, so index 0 is z = 1)
RECURSIVE SetValues(_, _, _, _)
SetValues(names, l, z, vals) ==
    IF z > Len(names) THEN vals
    ELSE IF z = 1 \/ Len(names[z]) = 0 THEN SetValues(names, l, z + 1, vals)
         ELSE SetValues(names, l, z + 1,
                        [n \in DOMAIN vals \cup {names[z]} |->
                            IF n = names[z] THEN l[z] ELSE vals[n]])

\* values with no key: make(values, n), and the Values of a Request built
\* without them
NoValues == [n \in {} |-> <<>>]

\* h = m.routes[i].method[r.Method] when the entry has method handlers
MethodHandler(e, method) ==
    IF Cardinality(DOMAIN e.method) > 0 /\ method \in DOMAIN e.method
    THEN e.method[method]
    ELSE NoHandler

\* the body of the loop of Mux.handler for the entry i that matched, and the
\* return after the loop for i = 0. opt: the request is an OPTIONS request
\* that the entry has no handler for; the reply is built after RUnlock.
lookupAt(r, s, method, i) ==
    IF i = 0
    THEN [h |-> NoHandler, x |-> "req", vals |-> NoValues, f |-> FALSE,
          i |-> 0, opt |-> FALSE]
    ELSE LET h0 == MethodHandler(r[i], method)
             h  == IF h0 = NoHandler THEN r[i].base ELSE h0
         IN  IF h0 = NoHandler /\ method = "OPTIONS"
             THEN [h |-> NoHandler, x |-> "nil", vals |-> NoValues, f |-> TRUE,
                   i |-> i, opt |-> TRUE]
             ELSE IF h = NoHandler
             THEN [h |-> NoHandler, x |-> "req", vals |-> NoValues, f |-> TRUE,
                   i |-> i, opt |-> FALSE]
             ELSE [h |-> h, x |-> "req",
                   vals |-> SetValues(SubexpNames(r[i].matcher),
                                      FindStringSubmatch(r[i].matcher, s),
                                      1, NoValues),
                   f |-> TRUE, i |-> i, opt |-> FALSE]

\* a loop that goes on to the next entry when the one that matched has neither
\* a handler for the method nor a default handler
RECURSIVE FirstUsable(_, _, _, _)
FirstUsable(r, s, method, i) ==
    IF i > Len(r) THEN 0
    ELSE IF /\ Len(FindStringSubmatch(r[i].matcher, s)) > 0
            /\ (MethodHandler(r[i], method) # NoHandler \/ r[i].base # NoHandler)
         THEN i
         ELSE FirstUsable(r, s, method, i + 1)

handlerSkip(r, s, method) ==
    LET u == FirstUsable(r, s, method, 1)
    IN  lookupAt(r, s, method, IF u # 0 THEN u ELSE FirstMatch(r, s, 1))

\* Mux.handler from m.lock.RLock() to the return or, for an OPTIONS request
\* without an OPTIONS handler, to the m.lock.RUnlock() that precedes the read
\* of the entry's methods. h, x, f are the results; i is the index of the
\* entry that matched.
handler(r, s, method) == lookupAt(r, s, method, FirstMatch(r, s, 1))

\* the body of the loop of the earlier Mux.handler, which has no OPTIONS
\* branch: the handler of the method, else the default handler of the entry,
\* else the 405 return
lookupAtEarlier(r, s, method, i) ==
    IF i = 0
    THEN [h |-> NoHandler, x |-> "req", vals |-> NoValues, f |-> FALSE,
          i |-> 0, opt |-> FALSE]
    ELSE LET h0 == MethodHandler(r[i], method)
             h  == IF h0 = NoHandler THEN r[i].base ELSE h0
         IN  IF h = NoHandler
             THEN [h |-> NoHandler, x |-> "req", vals |-> NoValues, f |-> TRUE,
                   i |-> i, opt |-> FALSE]
             ELSE [h |-> h, x |-> "req",
                   vals |-> SetValues(SubexpNames(r[i].matcher),
                                      FindStringSubmatch(r[i].matcher, s),
                                      1, NoValues),
                   f |-> TRUE, i |-> i, opt |-> FALSE]

\* the earlier Mux.handler, from m.lock.RLock() to its return
handlerEarlier(r, s, method) == lookupAtEarlier(r, s, method, FirstMatch(r, s, 1))

\* the calls of m.lock.RUnlock() on the path of the earlier Mux.handler that
\* produced res: one after the loop and one before the return of the handler
\* found, none on the 405 return
RUnlocksEarlier(res) ==
    IF res.i = 0 THEN 1
    ELSE IF res.h = NoHandler THEN 0
    ELSE 1

\* the orders in which "for n := range m.routes[i].method" can visit the keys
Orders(S) == {q \in [1 .. Cardinality(S) -> S] : \A n \in S : \E k \in DOMAIN q : q[k] = n}

\* an OPTIONS reply that allows everything, whatever the entry holds
AllowOfStar(e) == {<<"*">>}

\* the Allow values Mux.handler can build for the entry: the method names in
\* map order, or "*" when the entry has no method handler
AllowOf(e) ==
    IF Cardinality(DOMAIN e.method) > 0 THEN Orders(DOMAIN e.method) ELSE {<<"*">>}

\* a ServeHTTP that never looks at m.Default
OutcomeNoDefault(h, x, a, f, dflt) ==
    IF x = "nil" /\ f /\ Len(a) > 0 THEN [status |-> "204", run |-> NoHandler]
    ELSE IF h # NoHandler THEN [status |-> "handler", run |-> h]
    ELSE IF f THEN [status |-> "405", run |-> NoHandler]
    ELSE [status |-> "404", run |-> NoHandler]

\* Mux.ServeHTTP after Mux.handler returned (h, x, a, f): what is done with the
\* request. dflt is m.Default.
Outcome(h, x, a, f, dflt) ==
    IF x = "nil" /\ f /\ Len(a) > 0 THEN [status |-> "204", run |-> NoHandler]
    ELSE IF h # NoHandler THEN [status |-> "handler", run |-> h]
    ELSE IF f THEN [status |-> "405", run |-> NoHandler]
    ELSE IF dflt THEN [status |-> "default", run |-> NoHandler]
    ELSE [status |-> "404", run |-> NoHandler]

\* a lookup that returns the handler it found with the read lock still held
RUnlocksHeld(res) ==
    IF res.i = 0 THEN 1
    ELSE IF res.opt THEN 1
    ELSE IF res.h = NoHandler THEN 1
    ELSE 0

\* a lookup whose 405 return forgets the read lock
RUnlocksLeak(res) ==
    IF res.i = 0 THEN 1
    ELSE IF res.opt THEN 1
    ELSE IF res.h = NoHandler THEN 0
    ELSE 1

\* the calls of m.lock.RUnlock() on the path of Mux.handler that produced res:
\* after the loop (no match), in the OPTIONS branch, in the 405 branch, and
\* before the return of the handler found
RUnlocks(res) ==
    IF res.i = 0 THEN 1
    ELSE IF res.opt THEN 1
    ELSE IF res.h = NoHandler THEN 1
    ELSE 1

(***************************************************************************)
(* Dispatch: Mux.handleError and Mux.process.                              *)
(***************************************************************************)
\* the fields of the Mux that hold an ErrorHandler
ErrorFields == {"Error", "Error404", "Error405", "Error500"}

\* a handleError that asks the generic handler first
handleErrorGeneric(c, errs) ==
    IF "Error" \in errs THEN "Error"
    ELSE IF c = "404" /\ "Error404" \in errs THEN "Error404"
    ELSE IF c = "405" /\ "Error405" \in errs THEN "Error405"
    ELSE IF c = "500" /\ "Error500" \in errs THEN "Error500"
    ELSE "default"

\* Mux.handleError: the receiver of a report with status c, the ErrorHandler
\* field whose HandleError is called or "default" for the response the Mux
\* writes itself; errs are the fields that are not nil
handleError(c, errs) ==
    IF c = "404" /\ "Error404" \in errs THEN "Error404"
    ELSE IF c = "405" /\ "Error405" \in errs THEN "Error405"
    ELSE IF c = "500" /\ "Error500" \in errs THEN "Error500"
    ELSE IF "Error" \in errs THEN "Error"
    ELSE "default"

\* one error report: the status and who received it
Report(c, errs) == [c |-> c, to |-> handleError(c, errs)]

\* a deferred function that recovers from the panic and reports nothing
RecoverSilent(reports, errs) == reports

\* the deferred function of Mux.process after a panic: recover() and one
\* handleError with status 500; reports are those of the request so far
Recover(reports, errs) == Append(reports, Report("500", errs))

\* x, f = context.WithTimeout(x, m.Timeout) when m.Timeout > 0, else f is a
\* function that does nothing: the state of the derived context
WithTimeout(timeout) == IF timeout THEN "open" ELSE "none"

\* f(): the cancel function of the derived context, when there is one
Cancel(ctx) == IF ctx = "open" THEN "released" ELSE ctx

\* Request.Context() of the Request that Mux.handler builds with ctx: m.ctx:
\* nil when the Mux has no base context, else the base context
RequestContext(m) == IF m.root = "nil" THEN "nil" ELSE "mux"

\* the context Mux.ServeHTTP passes to Mux.process: the base context, or the
\* context of the http.Request when there is none
HandlerContext(m) == IF m.root = "nil" THEN "request" ELSE "mux"

\* a context is cancelled: the base context after Mux.Close cancelled it; the
\* context of the http.Request is not cancelled while the request is served
IsCancelled(ctx, m) == ctx = "mux" /\ m.root = "cancelled"

\* a Mux.process that goes from the global middleware straight to the handler
AfterGlobalSkip(ws, h) == "handler"

\* Mux.process after the global middleware: the list of the handler (v) is
\* walked when it has entries, else the handler is called. h is NoHandler for
\* m.Default, which is processed with v = nil.
AfterGlobal(ws, h) ==
    IF h # NoHandler /\ Len(ws[h]) > 0 THEN "hwares" ELSE "handler"

\* Mux.process at its start: the global list m.wares.w is walked when it has
\* entries
EnterProcess(ws, h) == IF Len(ws[0]) > 0 THEN "gwares" ELSE AfterGlobal(ws, h)

\* the number of middleware functions registered so far
RECURSIVE WareCount(_, _)
WareCount(ws, D) ==
    IF D = {} THEN 0
    ELSE LET x == CHOOSE y \in D : TRUE
         IN  Len(ws[x]) + WareCount(ws, D \ {x})

\* the n functions one Middleware call passes: the next n identities
NewWares(c, n) == [k \in 1 .. n |-> c + k]

(***************************************************************************)
(* Validation: package val.                                                *)
(***************************************************************************)
\* the kinds of a Validator, in the order of their declaration
KindAny == 0
KindNone == 1
KindNumber == 2
KindInt == 3
KindString == 4
KindBool == 5
KindObject == 6
KindList == 7
KindListNumber == 8
KindListString == 9

\* kind.String
KindName(k) ==
    CASE k = KindAny -> "any"
      [] k = KindNone -> "null"
      [] k = KindNumber -> "number"
      [] k = KindInt -> "integer"
      [] k = KindString -> "string"
      [] k = KindBool -> "boolean"
      [] k = KindObject -> "object"
      [] k = KindList -> "[]object"
      [] k = KindListNumber -> "[]number"
      [] k = KindListString -> "[]string"
      [] OTHER -> "invalid"

\* the values encoding/json decodes into an interface: nil, bool, string,
\* float64, map[string]any and []any. n is the payload: the number counted in
\* halves, the length of a string or of a list; e tells what a list holds:
\* "number", "string", or "mixed" for both.
Null == [t |-> "null", n |-> 0, e |-> ""]
Boolean == [t |-> "bool", n |-> 0, e |-> ""]
Str(n) == [t |-> "string", n |-> n, e |-> ""]
Num(halves) == [t |-> "number", n |-> halves, e |-> ""]
Obj == [t |-> "object", n |-> 0, e |-> ""]
Lst(n, e) == [t |-> "list", n |-> n, e |-> e]

\* errors: nil, ErrInvalidName, "'name': required", a kind mismatch with the
\* kinds the message names, a list entry of the wrong type, the error of a Rule
NoError == [e |-> "nil", name |-> "", expected |-> "", got |-> ""]
ErrInvalidName == [e |-> "invalid name", name |-> "", expected |-> "", got |-> ""]
ErrRequired(name) == [e |-> "required", name |-> name, expected |-> "", got |-> ""]
ErrKind(name, expected, got) ==
    [e |-> "kind", name |-> name, expected |-> expected, got |-> got]
ErrEntry(name, expected) ==
    [e |-> "entry", name |-> name, expected |-> expected, got |-> ""]
ErrRule(name, msg) == [e |-> "rule", name |-> name, expected |-> "", got |-> msg]

\* a panic of the Go runtime that unwinds through every caller in package val
Fault == "runtime error: invalid memory address or nil pointer dereference"
Panic == [e |-> "panic", name |-> "", expected |-> "", got |-> Fault]

\* error.Error(): the text of an error value
ErrorText(err) ==
    CASE err.e = "nil" -> ""
      [] err.e = "invalid name" -> "invalid name in set"
      [] err.e = "required" -> "'" \o err.name \o "': required"
      [] err.e = "kind" ->
            "'" \o err.name \o "': expected '" \o err.expected \o "' but got '"
                \o err.got \o "'"
      [] err.e = "entry" ->
            "'" \o err.name \o "': '" \o err.expected \o "' contains invalid entry"
      [] err.e = "rule" -> "'" \o err.name \o "': " \o err.got
      [] OTHER -> Fault

\* reflect.TypeOf(i).String() of a decoded value that is not nil
GoType(i) ==
    CASE i.t = "bool" -> "bool"
      [] i.t = "string" -> "string"
      [] i.t = "number" -> "float64"
      [] i.t = "object" -> "map[string]interface {}"
      [] OTHER -> "[]interface {}"

\* the Rules: Min(a), Max(a), Integer (number(true)), Float (number(false)),
\* SubSet(s), a Set used as the Rule of a field that holds an object, and
\* Length{Min: min, Max: max}
Min(a) == [r |-> "Min", a |-> a]
Max(a) == [r |-> "Max", a |-> a]
Integer == [r |-> "number", a |-> 1]
Float == [r |-> "number", a |-> 0]
SubSet(s) == [r |-> "SubSet", a |-> 0, s |-> s]
Length(min, max) == [r |-> "Length", a |-> min, b |-> max]

\* modf on a number counted in halves: the exponent e is computed in uint64,
\* so for |f| < 1 it wraps and no bit is cleared; for larger f the fraction
\* bits are cleared. The second result is (f - r) > 0.
modf(f) ==
    LET a == IF f < 0 THEN 0 - f ELSE f
        t == 2 * (a \div 2)
        r == IF a < 2 THEN f ELSE IF f < 0 THEN 0 - t ELSE t
    IN  [r |-> r, more |-> (f - r) > 0]

RECURSIVE validate(_, _, _)

\* SubSet.Validate: a value that is not an object is refused with the name of
\* its Go type, and reflect.TypeOf(nil) is a nil Type whose String method
\* cannot be called; an object (which holds no field here) goes to validate
SubSetValidate(s, i) ==
    IF i.t = "object" THEN ErrorText(validate(s, [n \in {} |-> Null], 1))
    ELSE IF i.t = "null" THEN Fault
    ELSE "type '" \o GoType(i) \o "' is not valid for SubSets"

\* Length.Validate: the length of a string, of a list or of an object (which
\* holds no field here) is held against Min, and against Max unless
\* l.Min >= l.Max
LengthValidate(l, i) ==
    IF i.t \notin {"string", "list", "object"} THEN "value is not a string"
    ELSE IF i.n < l.a THEN "must be at least"
    ELSE IF l.a >= l.b THEN ""
    ELSE IF i.n > l.b THEN "cannot be more than"
    ELSE ""

\* Rule.Validate for the rules above: "" for nil, else the message
RuleValidate(rule, i) ==
    IF rule.r = "SubSet" THEN SubSetValidate(rule.s, i)
    ELSE IF rule.r = "Length" THEN LengthValidate(rule, i)
    ELSE IF i.t # "number" THEN "value is not a number"
    ELSE IF rule.r = "Min"
    THEN IF i.n < 2 * rule.a THEN "cannot be less than" ELSE ""
    ELSE IF rule.r = "Max"
    THEN IF i.n > 2 * rule.a THEN "cannot be more than" ELSE ""
    ELSE LET m == modf(i.n)
         IN  IF rule.a = 1 /\ (m.r # i.n \/ m.more) THEN "must an integer"
             ELSE IF rule.a = 0 /\ m.r = i.n /\ ~m.more THEN "must a float"
             ELSE ""

\* for x := range v.Rules: the error of the first Rule that fails, prefixed
\* with the name, or nil; a panic of a Rule is not an error and unwinds
RECURSIVE RulesFrom(_, _, _)
RulesFrom(v, i, x) ==
    IF x > Len(v.Rules) THEN NoError
    ELSE LET msg == RuleValidate(v.Rules[x], i)
         IN  IF msg = Fault THEN Panic
             ELSE IF msg # "" THEN ErrRule(v.Name, msg)
             ELSE RulesFrom(v, i, x + 1)

\* the indices of the Rules that the loop over v.Rules evaluates, from x on
RECURSIVE RulesEvaluated(_, _, _)
RulesEvaluated(v, i, x) ==
    IF x > Len(v.Rules) THEN <<>>
    ELSE IF RuleValidate(v.Rules[x], i) # "" THEN <<x>>
    ELSE <<x>> \o RulesEvaluated(v, i, x + 1)

\* the kind check of Validator.Validate, for v.Type > None
KindCheck(v, i) ==
    IF i.t = "null" THEN ErrKind(v.Name, KindName(v.Type), "null")
    ELSE IF i.t = "bool"
    THEN IF v.Type = KindBool THEN NoError
         ELSE ErrKind(v.Name, KindName(v.Type), "boolean")
    ELSE IF i.t = "string"
    THEN IF v.Type = KindString THEN NoError
         ELSE ErrKind(v.Name, KindName(v.Type), "string")
    ELSE IF i.t = "number"
    THEN IF v.Type = KindNumber THEN NoError
         ELSE IF v.Type = KindInt
         THEN IF modf(i.n).r # i.n \/ modf(i.n).more
              THEN ErrKind(v.Name, "integer", "float")
              ELSE NoError
         ELSE ErrKind(v.Name, KindName(v.Type), "number")
    ELSE IF i.t = "object" /\ v.Type # KindObject
    THEN ErrKind(v.Name, "object", "map[string]interface {}")
    ELSE IF i.t = "list" /\ v.Type < KindList
    THEN ErrKind(v.Name, "[]object", "[]interface {}")
    ELSE IF v.Type > KindList /\ i.n > 0
    THEN IF v.Type = KindListNumber
         THEN IF i.e = "number" THEN NoError ELSE ErrEntry(v.Name, "[]number")
         ELSE IF i.e = "string" THEN NoError ELSE ErrEntry(v.Name, "[]string")
    ELSE NoError

\* a Validator.Validate that refuses a value other than null for the kind None
ValidatorValidateAbsent(v, i) ==
    IF v.Type = KindNone /\ i.t # "null"
    THEN ErrKind(v.Name, KindName(v.Type), i.t)
    ELSE LET k == IF v.Type > KindNone THEN KindCheck(v, i) ELSE NoError
         IN  IF k # NoError THEN k ELSE RulesFrom(v, i, 1)

\* Validator.Validate
ValidatorValidate(v, i) ==
    LET k == IF v.Type > KindNone THEN KindCheck(v, i) ELSE NoError
    IN  IF k # NoError THEN k ELSE RulesFrom(v, i, 1)

\* the Rules that Validator.Validate evaluates, in the order of evaluation:
\* none when the kind check returns an error
EvaluatedDespiteKind(v, i) == RulesEvaluated(v, i, 1)

Evaluated(v, i) ==
    IF v.Type > KindNone /\ KindCheck(v, i) # NoError THEN <<>>
    ELSE RulesEvaluated(v, i, 1)

\* a validate that does not look at Optional
RECURSIVE validateStrict(_, _, _)
validateStrict(s, m, x) ==
    IF x > Len(s) THEN NoError
    ELSE IF Len(s[x].Name) = 0 THEN ErrInvalidName
    ELSE IF s[x].Name \notin DOMAIN m
    THEN IF s[x].Type = KindNone
         THEN validateStrict(s, m, x + 1)
         ELSE ErrRequired(s[x].Name)
    ELSE LET err == ValidatorValidate(s[x], m[s[x].Name])
         IN  IF err # NoError THEN err ELSE validateStrict(s, m, x + 1)

\* validate: for x := range s, from index x on
validate(s, m, x) ==
    IF x > Len(s) THEN NoError
    ELSE IF Len(s[x].Name) = 0 THEN ErrInvalidName
    ELSE IF s[x].Name \notin DOMAIN m
    THEN IF s[x].Type = KindNone \/ s[x].Optional
         THEN validate(s, m, x + 1)
         ELSE ErrRequired(s[x].Name)
    ELSE LET err == ValidatorValidate(s[x], m[s[x].Name])
         IN  IF err # NoError THEN err ELSE validate(s, m, x + 1)

\* Set.Validate
SetValidate(s, c) == validate(s, c, 1)

\* a ValidateEmpty that validates an empty content like any other
SetValidateEmptyStrict(s, c) == validate(s, c, 1)

\* Set.ValidateEmpty: len(c) == 0 holds for an empty and for a nil Content
SetValidateEmpty(s, c) ==
    IF Cardinality(DOMAIN c) = 0 THEN NoError ELSE validate(s, c, 1)

(***************************************************************************)
(* The body of a Request: Request.Content, Request.ValidateContent and the  *)
(* handler that Wrap builds.                                               *)
(***************************************************************************)
\* r.Body: nil, or a reader of no bytes, of bytes that are not the JSON text
\* of an object, or of the JSON text of the object c
NilContent == [n \in {} |-> Null]
BodyNil == [k |-> "nil", c |-> NilContent]
BodyEmpty == [k |-> "empty", c |-> NilContent]
BodyMalformed == [k |-> "malformed", c |-> NilContent]
BodyObject(c) == [k |-> "object", c |-> c]

\* ErrNoBody, and the error of json.Decoder.Decode other than io.EOF
ErrNoBody == [e |-> "missing HTTP body", name |-> "", expected |-> "", got |-> ""]
ErrDecode == [e |-> "json", name |-> "", expected |-> "", got |-> ""]

\* a Validator of package routex: nil, or a val.Set
NilValidator == [nil |-> TRUE, s |-> <<>>]
SetValidator(s) == [nil |-> FALSE, s |-> s]

\* Request.Content: ErrNoBody for a nil Body; Decode returns io.EOF for a body
\* of no bytes, which is turned into a nil Content and a nil error
RequestContent(b) ==
    IF b.k = "nil" THEN [c |-> NilContent, err |-> ErrNoBody]
    ELSE IF b.k = "empty" THEN [c |-> NilContent, err |-> NoError]
    ELSE IF b.k = "malformed" THEN [c |-> NilContent, err |-> ErrDecode]
    ELSE [c |-> b.c, err |-> NoError]

\* Request.ValidateContent
RequestValidateContent(b, v) ==
    LET r == RequestContent(b)
    IN  IF r.err # NoError THEN r
        ELSE IF v.nil THEN r
        ELSE [c |-> r.c, err |-> SetValidate(v.s, r.c)]

\* a wrapper.Handle that calls the user handler whatever the Validator says
WrapperHandleUnchecked(b, v) ==
    [user |-> TRUE, c |-> RequestContent(b).c, report |-> ""]

\* wrapper.Handle: whether the user handler is called, the Content it gets,
\* and the status of the error report made instead
WrapperHandle(b, v) ==
    IF b.k = "nil" THEN [user |-> TRUE, c |-> NilContent, report |-> ""]
    ELSE LET r == RequestValidateContent(b, v)
         IN  IF r.err # NoError THEN [user |-> FALSE, c |-> r.c, report |-> "400"]
             ELSE [user |-> TRUE, c |-> r.c, report |-> ""]

(***************************************************************************)
(* The inputs the workers draw from.                                       *)
(***************************************************************************)
\* "^/a$"
PExact == <<Bol, Lit("/"), Lit("a"), Eol>>
\* "^/(?P<n>[a1]+)$"
PName == <<Bol, Lit("/"), Named("n", {"a", "1"}, "[a1]+"), Eol>>
\* "^/(a+)/(?P<id>1+)$"
PItem == <<Bol, Lit("/"), Grp({"a"}, "a+"), Lit("/"), Named("id", {"1"}, "1+"), Eol>>
\* "(?P<n>a+)/(?P<n>1+)": not anchored, and one group name used twice
PDup == <<Named("n", {"a"}, "a+"), Lit("/"), Named("n", {"1"}, "1+")>>
\* "" and "/(": rejected by Mux.Add
PEmpty == <<>>
PBad == <<Lit("/"), Bad>>

Patterns == {PExact, PName, PItem, PDup, PEmpty, PBad}
MethodLists == {<<>>, <<"GET">>, <<"OPTIONS">>, <<"GET", "POST">>, <<"GET", "">>}
Methods == {"GET", "POST", "OPTIONS"}
Paths == {<<"/">>, <<"/", "a">>, <<"/", "1">>, <<"/", "a", "/", "1">>,
          <<"/", "/", "a">>}

\* the smaller inputs of the concurrent specification
ConcPatterns == {PExact, PName}
ConcMethodLists == {<<>>, <<"GET">>}
ConcMethods == {"OPTIONS"}
ConcPaths == {<<"/", "a">>}

\* the inputs of the specifications of Mux.process
ProcMethodLists == {<<>>, <<"GET">>}
ProcMethods == {"GET", "POST"}
ProcPaths == {<<"/", "a">>, <<"/", "1">>}

\* the Validators, Sets and contents of the specification of package val
ValNames == {"", "a", "b"}
ValTypes == {<<KindAny, <<>>>>, <<KindNone, <<>>>>, <<KindInt, <<Min(1)>>>>,
             <<KindString, <<>>>>}
Validators ==
    {[Name |-> n, Type |-> t[1], Rules |-> t[2], Optional |-> o] :
        n \in ValNames, t \in ValTypes, o \in BOOLEAN}
Sets == UNION {[1 .. n -> Validators] : n \in 0 .. MaxValidators}
ValuesA == {Null, Num(0), Num(2), Num(3), Str(1)}
ValuesB == {Num(2)}
Contents ==
    {[n \in {} |-> Null], [n \in {""} |-> Num(2)]}
       \cup {[n \in {"a"} |-> a] : a \in ValuesA}
       \cup {[n \in {"b"} |-> b] : b \in ValuesB}
       \cup {[n \in {"a", "b"} |-> IF n = "a" THEN a ELSE b] :
                a \in ValuesA, b \in ValuesB}

\* the Validators and values of the calls of Validator.Validate: every kind
\* with every list of Rules below, and every type of decoded value; the
\* numbers run from -1.5 to 2 in steps of one half
SubSets == {<<>>, <<[Name |-> "b", Type |-> KindString, Rules |-> <<>>,
                     Optional |-> FALSE]>>}
RuleLists == {<<>>, <<Min(2), Max(1)>>, <<Max(1), Min(2)>>, <<Integer>>, <<Float>>,
              <<Integer, Float>>} \cup {<<SubSet(s)>> : s \in SubSets}
SoloValidators ==
    {[Name |-> "a", Type |-> k, Rules |-> r, Optional |-> o] :
        k \in KindAny .. KindListString, r \in RuleLists, o \in BOOLEAN}
SoloValues ==
    {Null, Boolean, Str(1), Obj, Lst(0, ""), Lst(1, "number"), Lst(1, "string"),
     Lst(2, "mixed")}
        \cup {Num(h) : h \in -3 .. 4}

\* the Length rules and the values of the calls of Length.Validate
LengthLimits == 0 .. 2
LengthRules == {Length(mn, mx) : mn \in LengthLimits, mx \in LengthLimits}
LengthValues ==
    {Str(n) : n \in 0 .. 3} \cup {Lst(n, "string") : n \in 0 .. 3}
        \cup {Obj, Null, Boolean, Num(2)}

\* the bodies and Validators of the requests that a Wrap handler serves
WrapContents == {NilContent, [n \in {"a"} |-> Num(2)], [n \in {"a"} |-> Str(1)]}
WrapBodies ==
    {BodyNil, BodyEmpty, BodyMalformed} \cup {BodyObject(c) : c \in WrapContents}
WrapSets ==
    {<<>>,
     <<[Name |-> "a", Type |-> KindInt, Rules |-> <<>>, Optional |-> FALSE]>>,
     <<[Name |-> "a", Type |-> KindInt, Rules |-> <<Min(1)>>, Optional |-> TRUE]>>}
WrapValidators == {NilValidator} \cup {SetValidator(s) : s \in WrapSets}

\* every request path of at most MaxPathLen characters over PathChars
PathChars == {"/", "a", "."}
AllPaths == UNION {[1 .. n -> PathChars] : n \in 0 .. MaxPathLen}

(***************************************************************************)
(* State.                                                                  *)
(***************************************************************************)
VARIABLES
    routes,     \* m.routes
    lockW,      \* the worker that holds m.lock for writing, or 0
    lockR,      \* the workers that hold m.lock for reading
    dflt,       \* m.Default is set
    pc,         \* where each worker is
    areq,       \* the arguments of the worker's Mux.add call
    sreq,       \* the request the worker serves and Mux.handler's results
    ret,        \* what the worker's last call returned or did
    calls,      \* calls that passed the argument checks; call n passes handler n
    commits,    \* calls that went through the locked part of Mux.add
    lastReg,    \* per (pattern text, method or "" for the default handler): the
                \* handler of the call that last registered it with success
    conf,       \* m.Timeout > 0 and the error handlers of the Mux that are set
    wares,      \* the middleware lists: wares[0] is m.wares.w, wares[h] is
                \* the wares.w of the handler that call h created
    wlock,      \* per middleware list, the workers that hold its lock for reading
    vcall,      \* the last call of the validation package and its result
    faults,     \* panics that Mux.process has recovered from
    mctx        \* m.ctx, the base context of the Mux, whether Mux.Close has
                \* been called, and the workers that were running then

vars == <<routes, lockW, lockR, dflt, pc, areq, sreq, ret, calls, commits, lastReg, conf, wares, wlock, vcall, faults, mctx>>

NoAdd == [p |-> <<>>, methods |-> <<>>, v |-> NoHandler, i |-> 0]
NoRes == [h |-> NoHandler, x |-> "nil", vals |-> NoValues, f |-> FALSE,
          i |-> 0, opt |-> FALSE]
NoServe == [s |-> <<>>, method |-> "", res |-> NoRes, a |-> <<>>, unl |-> 0,
            h |-> NoHandler, k |-> 0]
NoRet == [op |-> "none", err |-> "", h |-> NoHandler, pat |-> "", methods |-> <<>>,
          order |-> 0,
          status |-> "", run |-> NoHandler, vals |-> NoValues, a |-> <<>>,
          i |-> 0, s |-> <<>>, method |-> "", p |-> <<>>, hnil |-> FALSE,
          loc |-> <<>>, unl |-> 0, trace |-> <<>>, ctx |-> "none",
          reports |-> <<>>, rctx |-> "none", hctx |-> "none", ws |-> <<>>]
\* a Mux whose Timeout is zero and whose error handlers are nil
NoConf == [timeout |-> FALSE, errs |-> {}]
\* no call of the validation package yet
NoCall == [op |-> "none"]

\* a Mux without a base context (New, or the zero value) and a Mux made by
\* NewContext with a context that is not nil
NoContext == [root |-> "nil", closed |-> FALSE, during |-> {}]
WithContext == [root |-> "live", closed |-> FALSE, during |-> {}]

\* the state after the construction of a Mux whose base context is one of C
InitMux(C) ==
    /\ routes = <<>>
    /\ lockW = 0
    /\ lockR = {}
    /\ dflt \in BOOLEAN
    /\ pc = [w \in Workers |-> "idle"]
    /\ areq = [w \in Workers |-> NoAdd]
    /\ sreq = [w \in Workers |-> NoServe]
    /\ ret = [w \in Workers |-> NoRet]
    /\ calls = 0
    /\ commits = 0
    /\ lastReg = [k \in {} |-> NoHandler]
    /\ conf = NoConf
    /\ wares = [x \in {0} |-> <<>>]
    /\ wlock = [x \in {0} |-> {}]
    /\ vcall = NoCall
    /\ faults = 0
    /\ mctx \in C

Init == InitMux({NoContext})

(***************************************************************************)
(* Registration: Mux.Add and Mux.add.                                      *)
(***************************************************************************)
\* the slots a call with these methods writes: the methods, or "" (default)
SlotsOf(methods) ==
    IF Len(methods) > 0 THEN {methods[k] : k \in 1 .. Len(methods)} ELSE {""}

\* Mux.Add up to m.lock.Lock(): the argument checks return an error, or the
\* call goes on to take the lock. hnil: the Handler passed is nil.
Add(w, p, hnil, methods) ==
    /\ pc[w] = "idle"
    /\ LET err == AddArgsError(p, hnil, methods)
       IN  IF err # ""
           THEN /\ ret' = [ret EXCEPT ![w] = [NoRet EXCEPT !.op = "add", !.err = err,
                                                 !.pat = String(p),
                                                 !.methods = methods,
                                                 !.p = p, !.hnil = hnil]]
                /\ pc' = [pc EXCEPT ![w] = "done"]
                /\ UNCHANGED <<areq, calls, commits>>
           ELSE /\ calls < MaxAdds
                /\ calls' = calls + 1
                /\ areq' = [areq EXCEPT ![w] = [p |-> p, methods |-> methods,
                                                 v |-> calls + 1, i |-> 0]]
                /\ pc' = [pc EXCEPT ![w] = "add_lock"]
                /\ UNCHANGED ret
    /\ UNCHANGED <<routes, lockW, lockR, dflt, sreq, commits, lastReg, conf, wares, wlock, vcall, faults,
                   mctx>>

\* a lock that is taken without waiting for its holder
AddLockNoWait(w) ==
    /\ pc[w] = "add_lock"
    /\ lockW' = w
    /\ pc' = [pc EXCEPT ![w] = "add_locked"]
    /\ UNCHANGED <<routes, lockR, dflt, areq, sreq, ret, calls, commits, lastReg, conf, wares, wlock, vcall, faults,
                   mctx>>

\* m.lock.Lock()
AddLock(w) ==
    /\ pc[w] = "add_lock"
    /\ lockW = 0
    /\ lockR = {}
    /\ lockW' = w
    /\ pc' = [pc EXCEPT ![w] = "add_locked"]
    /\ UNCHANGED <<routes, lockR, dflt, areq, sreq, ret, calls, commits, lastReg, conf, wares, wlock, vcall, faults,
                   mctx>>

\* the loop of Mux.add over m.routes that looks for the pattern
AddScan(w) ==
    /\ pc[w] = "add_locked"
    /\ areq' = [areq EXCEPT ![w].i = FindEntry(routes, String(areq[w].p), 1)]
    /\ pc' = [pc EXCEPT ![w] = "add_store"]
    /\ UNCHANGED <<routes, lockW, lockR, dflt, sreq, ret, calls, commits, lastReg, conf, wares, wlock, vcall, faults,
                   mctx>>

\* Mux.add from there to m.lock.Unlock() and the return
AddStore(w) ==
    /\ pc[w] = "add_store"
    /\ LET q == areq[w]
           r == store(routes, q.i, q.p, q.methods, q.v)
           slots == {<<String(q.p), m>> : m \in SlotsOf(q.methods)}
       IN  /\ routes' = r.routes
           /\ ret' = [ret EXCEPT ![w] = [NoRet EXCEPT !.op = "add", !.err = r.err,
                                                 !.h = r.h, !.pat = String(q.p),
                                                 !.methods = q.methods,
                                                 !.order = commits + 1,
                                                 !.p = q.p]]
           /\ wares' = IF r.err = ""
                       THEN [x \in DOMAIN wares \cup {q.v} |->
                                IF x = q.v THEN <<>> ELSE wares[x]]
                       ELSE wares
           /\ wlock' = IF r.err = ""
                       THEN [x \in DOMAIN wlock \cup {q.v} |->
                                IF x = q.v THEN {} ELSE wlock[x]]
                       ELSE wlock
           /\ lastReg' = IF r.err = ""
                         THEN [k \in DOMAIN lastReg \cup slots |->
                                  IF k \in slots THEN q.v ELSE lastReg[k]]
                         ELSE lastReg
    /\ commits' = commits + 1
    /\ lockW' = 0
    /\ pc' = [pc EXCEPT ![w] = "done"]
    /\ areq' = [areq EXCEPT ![w] = NoAdd]
    /\ UNCHANGED <<lockR, dflt, sreq, calls, conf, vcall, faults, mctx>>

\* Mux.Add(p, h) without methods, from the call to the return, by a worker
\* that registers alone
AddDefault(w, p) ==
    /\ pc[w] = "idle"
    /\ calls < MaxRoutes
    /\ AddArgsError(p, FALSE, <<>>) = ""
    /\ LET v == calls + 1
           i == FindEntry(routes, String(p), 1)
           slots == {<<String(p), "">>}
       IN  \E r \in storeOutcomes(routes, i, p, <<>>, v) :
              /\ routes' = r.routes
              /\ ret' = [ret EXCEPT ![w] = [NoRet EXCEPT !.op = "add", !.err = r.err,
                                                    !.h = r.h, !.pat = String(p),
                                                    !.order = commits + 1,
                                                    !.p = p]]
              /\ wares' = IF r.err = ""
                          THEN [x \in DOMAIN wares \cup {v} |->
                                   IF x = v THEN <<>> ELSE wares[x]]
                          ELSE wares
              /\ wlock' = IF r.err = ""
                          THEN [x \in DOMAIN wlock \cup {v} |->
                                   IF x = v THEN {} ELSE wlock[x]]
                          ELSE wlock
              /\ lastReg' = IF r.err = ""
                            THEN [k \in DOMAIN lastReg \cup slots |->
                                     IF k \in slots THEN v ELSE lastReg[k]]
                            ELSE lastReg
    /\ calls' = calls + 1
    /\ commits' = commits + 1
    /\ pc' = [pc EXCEPT ![w] = "done"]
    /\ UNCHANGED <<lockW, lockR, dflt, areq, sreq, conf, vcall, faults, mctx>>

(***************************************************************************)
(* Serving: Mux.ServeHTTP and Mux.handler.                                 *)
(***************************************************************************)
\* Mux.ServeHTTP up to the call of Mux.handler. star: the request URI is "*".
ServeHTTP(w, star, s, method) ==
    /\ pc[w] = "idle"
    /\ IF star
       THEN /\ ret' = [ret EXCEPT ![w] = [NoRet EXCEPT !.op = "serve", !.status = "400"]]
            /\ pc' = [pc EXCEPT ![w] = "done"]
            /\ UNCHANGED sreq
       ELSE IF clean(s) # s
       THEN /\ ret' = [ret EXCEPT ![w] = [NoRet EXCEPT !.op = "serve", !.status = "301",
                                             !.s = s, !.method = method,
                                             !.loc = clean(s)]]
            /\ pc' = [pc EXCEPT ![w] = "done"]
            /\ UNCHANGED sreq
       ELSE /\ sreq' = [sreq EXCEPT ![w] = [NoServe EXCEPT !.s = s, !.method = method]]
            /\ pc' = [pc EXCEPT ![w] = "rlock"]
            /\ UNCHANGED ret
    /\ UNCHANGED <<routes, lockW, lockR, dflt, areq, calls, commits, lastReg, conf, wares, wlock, vcall, faults,
                   mctx>>

\* m.lock.RLock()
HandlerRLock(w) ==
    /\ pc[w] = "rlock"
    /\ lockW = 0
    /\ lockR' = lockR \cup {w}
    /\ pc' = [pc EXCEPT ![w] = "scan"]
    /\ UNCHANGED <<routes, lockW, dflt, areq, sreq, ret, calls, commits, lastReg, conf, wares, wlock, vcall, faults,
                   mctx>>

\* the loop over m.routes, to m.lock.RUnlock()
HandlerScan(w) ==
    /\ pc[w] = "scan"
    /\ LET res == handler(routes, sreq[w].s, sreq[w].method)
       IN  /\ sreq' = [sreq EXCEPT ![w].res = res, ![w].unl = RUnlocks(res)]
           /\ pc' = [pc EXCEPT ![w] = IF res.opt THEN "options" ELSE "serve"]
           /\ lockR' = IF RUnlocks(res) > 0 THEN lockR \ {w} ELSE lockR
    /\ UNCHANGED <<routes, lockW, dflt, areq, ret, calls, commits, lastReg, conf, wares, wlock, vcall, faults,
                   mctx>>

\* the loop of the earlier Mux.handler over m.entries, to its return. A return
\* without RUnlock leaves the lock read-locked for good: the worker goes on,
\* and the lock stays held under the holder 0, which never releases it.
HandlerScanEarlier(w) ==
    /\ pc[w] = "scan"
    /\ LET res == handlerEarlier(routes, sreq[w].s, sreq[w].method)
       IN  /\ sreq' = [sreq EXCEPT ![w].res = res, ![w].unl = RUnlocksEarlier(res)]
           /\ pc' = [pc EXCEPT ![w] = "serve"]
           /\ lockR' = IF RUnlocksEarlier(res) > 0 THEN lockR \ {w}
                       ELSE (lockR \ {w}) \cup {0}
    /\ UNCHANGED <<routes, lockW, dflt, areq, ret, calls, commits, lastReg, conf,
                   wares, wlock, vcall, faults, mctx>>

\* the OPTIONS reply: m.routes[i].method is read after m.lock.RUnlock()
HandlerOptions(w) ==
    /\ pc[w] = "options"
    /\ \E a \in AllowOf(routes[sreq[w].res.i]) :
          sreq' = [sreq EXCEPT ![w].a = a]
    /\ pc' = [pc EXCEPT ![w] = "serve"]
    /\ UNCHANGED <<routes, lockW, lockR, dflt, areq, ret, calls, commits, lastReg, conf, wares, wlock, vcall, faults,
                   mctx>>

\* the OPTIONS reply walks the method map of entry i, without the lock, while
\* a Mux.add that holds the lock is about to write that same map: the Go runtime
\* may detect the concurrent map access and stop the whole process
HandlerOptionsRace(w) ==
    /\ pc[w] = "options"
    /\ lockW # 0
    /\ pc[lockW] = "add_store"
    /\ areq[lockW].i = sreq[w].res.i
    /\ Len(areq[lockW].methods) > 0
    /\ pc' = [x \in Workers |-> "fatal"]
    /\ UNCHANGED <<routes, lockW, lockR, dflt, areq, sreq, ret, calls, commits,
                   lastReg, conf, wares, wlock, vcall, faults, mctx>>

\* Mux.ServeHTTP after Mux.handler returned: the automatic OPTIONS reply, the
\* 405 or 404 report, or the start of Mux.process for the handler found or for
\* m.Default, up to the first call of a middleware or of the handler
Serve(w) ==
    /\ pc[w] = "serve"
    /\ LET q == sreq[w]
           o == Outcome(q.res.h, q.res.x, q.a, q.res.f, dflt)
           run == o.status \in {"handler", "default"}
           st == EnterProcess(wares, o.run)
           lk == IF st = "gwares" THEN 0 ELSE o.run
       IN  /\ ret' = [ret EXCEPT ![w] = [NoRet EXCEPT !.op = "serve",
                                            !.status = o.status, !.run = o.run,
                                            !.vals = q.res.vals, !.a = q.a,
                                            !.i = q.res.i, !.s = q.s,
                                            !.method = q.method,
                                            !.unl = q.unl,
                                            !.ctx = IF run THEN WithTimeout(conf.timeout)
                                                    ELSE "none",
                                            !.rctx = IF q.res.x = "nil" THEN "none"
                                                     ELSE RequestContext(mctx),
                                            !.hctx = IF run THEN HandlerContext(mctx)
                                                     ELSE "none",
                                            !.reports =
                                               IF o.status \in {"405", "404"}
                                               THEN <<Report(o.status, conf.errs)>>
                                               ELSE <<>>]]
           /\ pc' = [pc EXCEPT ![w] = IF run THEN st ELSE "done"]
           /\ sreq' = [sreq EXCEPT ![w] = IF run
                                          THEN [NoServe EXCEPT !.h = o.run, !.k = 1]
                                          ELSE NoServe]
           /\ wlock' = IF run /\ st \in {"gwares", "hwares"}
                       THEN [wlock EXCEPT ![lk] = @ \cup {w}]
                       ELSE wlock
    /\ UNCHANGED <<routes, lockW, lockR, dflt, areq, calls, commits, lastReg, conf,
                   wares, vcall, faults, mctx>>

\* one middleware of the list Mux.process walks has been called and came back:
\* it returned true or false, or it panicked (out). The panic unwinds past the
\* RUnlock of the list: the worker goes on, and the list stays read-locked
\* under the holder 0, which never releases it. The loop ranges over the
\* length the list had when it started and indexes m.wares.w anew at every
\* turn: past the end of a list that was replaced meanwhile, the index
\* expression panics.
RunWare(w, out) ==
    /\ pc[w] \in {"gwares", "hwares"}
    /\ out = "panic"
          \/ sreq[w].k <= Len(wares[IF pc[w] = "gwares" THEN 0 ELSE sreq[w].h])
    /\ LET q == sreq[w]
           x == IF pc[w] = "gwares" THEN 0 ELSE q.h
           inr == q.k <= Len(wares[x])
           tr == Append(ret[w].trace, [k |-> "ware",
                                       id |-> IF inr THEN wares[x][q.k] ELSE 0,
                                       out |-> out])
           nx == IF x = 0 THEN AfterGlobal(wares, q.h) ELSE "handler"
       IN  IF out = "true"
           THEN IF q.k < Len(wares[x])
                THEN /\ sreq' = [sreq EXCEPT ![w].k = q.k + 1]
                     /\ ret' = [ret EXCEPT ![w].trace = tr]
                     /\ UNCHANGED <<pc, wlock>>
                ELSE /\ wlock' = IF nx = "hwares"
                                 THEN [wlock EXCEPT ![x] = @ \ {w},
                                                    ![q.h] = @ \cup {w}]
                                 ELSE [wlock EXCEPT ![x] = @ \ {w}]
                     /\ sreq' = [sreq EXCEPT ![w].k = 1]
                     /\ ret' = [ret EXCEPT ![w].trace = tr]
                     /\ pc' = [pc EXCEPT ![w] = nx]
           ELSE IF out = "false"
           THEN /\ wlock' = [wlock EXCEPT ![x] = @ \ {w}]
                /\ ret' = [ret EXCEPT ![w].trace = tr, ![w].ctx = Cancel(@)]
                /\ sreq' = [sreq EXCEPT ![w] = NoServe]
                /\ pc' = [pc EXCEPT ![w] = "done"]
           ELSE /\ faults < MaxFaults
                /\ ret' = [ret EXCEPT ![w].trace = tr,
                                      ![w].reports = Recover(@, conf.errs)]
                /\ sreq' = [sreq EXCEPT ![w] = NoServe]
                /\ pc' = [pc EXCEPT ![w] = "done"]
                /\ wlock' = [wlock EXCEPT ![x] = (@ \ {w}) \cup {0}]
    /\ faults' = IF out = "panic" THEN faults + 1 ELSE faults
    /\ UNCHANGED <<routes, lockW, lockR, dflt, areq, calls, commits, lastReg, conf,
                   wares, vcall, mctx>>

\* the handler has been called and came back: it returned, it panicked, or it
\* is a Wrap handler that reported a 400 for the body and returned (out)
RunHandler(w, out) ==
    /\ pc[w] = "handler"
    /\ LET tr == Append(ret[w].trace, [k |-> "handler", id |-> sreq[w].h, out |-> out])
       IN  IF out = "return"
           THEN ret' = [ret EXCEPT ![w].trace = tr, ![w].ctx = Cancel(@)]
           ELSE IF out = "report400"
           THEN ret' = [ret EXCEPT ![w].trace = tr, ![w].ctx = Cancel(@),
                                   ![w].reports = Append(@, Report("400", conf.errs))]
           ELSE /\ faults < MaxFaults
                /\ ret' = [ret EXCEPT ![w].trace = tr,
                                      ![w].reports = Recover(@, conf.errs)]
    /\ faults' = IF out = "panic" THEN faults + 1 ELSE faults
    /\ sreq' = [sreq EXCEPT ![w] = NoServe]
    /\ pc' = [pc EXCEPT ![w] = "done"]
    /\ UNCHANGED <<routes, lockW, lockR, dflt, areq, calls, commits, lastReg, conf,
                   wares, wlock, vcall, mctx>>

\* Mux.Middleware (x = 0) and the Middleware method of the Route that call x
\* returned, passed n functions: nothing for n = 0, a new list when there is
\* none, else the append under the list's lock, which waits for its readers
Middleware(w, x, n) ==
    /\ pc[w] = "idle"
    /\ x \in DOMAIN wares
    /\ WareCount(wares, DOMAIN wares) + n <= MaxWares
    /\ (n > 0 /\ Len(wares[x]) > 0) => wlock[x] = {}
    /\ wares' = [wares EXCEPT ![x] = @ \o NewWares(WareCount(wares, DOMAIN wares), n)]
    /\ UNCHANGED <<routes, lockW, lockR, dflt, pc, areq, sreq, ret, calls, commits,
                   lastReg, conf, wlock, vcall, faults, mctx>>

\* Mux.Middleware, step by step, for callers that run at the same time. The
\* call with the functions ws returns at once when ws is empty; else it reads
\* m.wares without any lock and goes on to the store of a new list or to the
\* locked append.
MiddlewareCall(w, ws) ==
    /\ pc[w] = "idle"
    /\ WareCount(wares, DOMAIN wares)
          + Cardinality({v \in Workers : pc[v] \in {"mw_new", "mw_lock"}})
          + Len(ws) <= MaxWares
    /\ ret' = [ret EXCEPT ![w] = [NoRet EXCEPT !.op = "middleware", !.ws = ws]]
    /\ pc' = [pc EXCEPT ![w] = IF Len(ws) = 0 THEN "done"
                               ELSE IF Len(wares[0]) = 0 THEN "mw_new"
                               ELSE "mw_lock"]
    /\ UNCHANGED <<routes, lockW, lockR, dflt, areq, sreq, calls, commits, lastReg,
                   conf, wares, wlock, vcall, faults, mctx>>

\* m.wares = &wares{w: w}, by a caller that read m.wares == nil: the store
\* takes no lock and replaces whatever list is there by now
MiddlewareNew(w) ==
    /\ pc[w] = "mw_new"
    /\ wares' = [wares EXCEPT ![0] = ret[w].ws]
    /\ pc' = [pc EXCEPT ![w] = "done"]
    /\ UNCHANGED <<routes, lockW, lockR, dflt, areq, sreq, ret, calls, commits,
                   lastReg, conf, wlock, vcall, faults, mctx>>

\* m.wares.lock.Lock(), the append and Unlock, by a caller that read a list:
\* Lock waits for the readers of the list
MiddlewareAppend(w) ==
    /\ pc[w] = "mw_lock"
    /\ wlock[0] = {}
    /\ wares' = [wares EXCEPT ![0] = @ \o ret[w].ws]
    /\ pc' = [pc EXCEPT ![w] = "done"]
    /\ UNCHANGED <<routes, lockW, lockR, dflt, areq, sreq, ret, calls, commits,
                   lastReg, conf, wlock, vcall, faults, mctx>>

\* the owner of the Mux sets m.Timeout and the error handler fields before the
\* Mux is used
Configure(timeout, errs) ==
    /\ conf = NoConf
    /\ routes = <<>>
    /\ calls = 0
    /\ \A w \in Workers : pc[w] = "idle"
    /\ [timeout |-> timeout, errs |-> errs] # NoConf
    /\ conf' = [timeout |-> timeout, errs |-> errs]
    /\ UNCHANGED <<routes, lockW, lockR, dflt, pc, areq, sreq, ret, calls, commits,
                   lastReg, wares, wlock, vcall, faults, mctx>>

\* the call has returned to its caller: the worker is free for its next call
Return(w) ==
    /\ pc[w] = "done"
    /\ pc' = [pc EXCEPT ![w] = "idle"]
    /\ ret' = [ret EXCEPT ![w] = NoRet]
    /\ UNCHANGED <<routes, lockW, lockR, dflt, areq, sreq, calls, commits, lastReg, conf, wares, wlock, vcall, faults,
                   mctx>>

\* the handler is one that Wrap built with the Validator v, and the Request
\* has the body b: wrapper.Handle ran and came back, after the user handler
\* returned or after the report of the 400
RunWrapper(w, BB, VV) ==
    /\ pc[w] = "handler"
    /\ \E b \in BB, v \in VV :
          LET res == WrapperHandle(b, v)
              tr == Append(ret[w].trace,
                           [k |-> "wrapper", id |-> sreq[w].h,
                            out |-> IF res.user THEN "return" ELSE "report400",
                            b |-> b, v |-> v, user |-> res.user, c |-> res.c])
          IN  ret' = [ret EXCEPT ![w].trace = tr, ![w].ctx = Cancel(@),
                                 ![w].reports =
                                    IF res.report = "" THEN @
                                    ELSE Append(@, Report(res.report, conf.errs))]
    /\ sreq' = [sreq EXCEPT ![w] = NoServe]
    /\ pc' = [pc EXCEPT ![w] = "done"]
    /\ UNCHANGED <<routes, lockW, lockR, dflt, areq, calls, commits, lastReg, conf,
                   wares, wlock, vcall, faults, mctx>>

\* a Mux.Close that cancels nothing
CloseContextKeep(m) == m.root

\* what Mux.Close makes of m.ctx: nothing when it is nil, else m.cancel()
\* cancels it
CloseContext(m) == IF m.root = "nil" THEN m.root ELSE "cancelled"

\* Mux.Close, called by the owner of the Mux while the workers serve; it
\* returns nil. during keeps the workers whose handler or middleware was
\* running at the time of the call.
Close ==
    /\ ~mctx.closed
    /\ mctx' = [root |-> CloseContext(mctx), closed |-> TRUE,
                during |-> {w \in Workers : pc[w] \in {"gwares", "hwares", "handler"}}]
    /\ UNCHANGED <<routes, lockW, lockR, dflt, pc, areq, sreq, ret, calls, commits,
                   lastReg, conf, wares, wlock, vcall, faults>>

(***************************************************************************)
(* Calls of package val.                                                   *)
(***************************************************************************)
\* one call s.Validate(c), of a Set s of SS with a content c of CC
CallSetValidate(SS, CC) ==
    /\ vcall = NoCall
    /\ \E s \in SS, c \in CC :
          vcall' = [op |-> "Set.Validate", s |-> s, c |-> c, err |-> SetValidate(s, c)]
    /\ UNCHANGED <<routes, lockW, lockR, dflt, pc, areq, sreq, ret, calls, commits,
                   lastReg, conf, wares, wlock, faults, mctx>>

\* one call s.ValidateEmpty(c)
CallSetValidateEmpty(SS, CC) ==
    /\ vcall = NoCall
    /\ \E s \in SS, c \in CC :
          vcall' = [op |-> "Set.ValidateEmpty", s |-> s, c |-> c,
                    err |-> SetValidateEmpty(s, c)]
    /\ UNCHANGED <<routes, lockW, lockR, dflt, pc, areq, sreq, ret, calls, commits,
                   lastReg, conf, wares, wlock, faults, mctx>>

\* one call v.Validate(i), of a Validator v of VV with a value i of II; evals
\* holds the Rules it evaluated
CallValidatorValidate(VV, II) ==
    /\ vcall = NoCall
    /\ \E v \in VV, i \in II :
          vcall' = [op |-> "Validator.Validate", v |-> v, i |-> i,
                    err |-> ValidatorValidate(v, i), evals |-> Evaluated(v, i)]
    /\ UNCHANGED <<routes, lockW, lockR, dflt, pc, areq, sreq, ret, calls, commits,
                   lastReg, conf, wares, wlock, faults, mctx>>

\* one call rule.Validate(i), of a Rule of RR with a value of II
CallRuleValidate(RR, II) ==
    /\ vcall = NoCall
    /\ \E rule \in RR, i \in II :
          vcall' = [op |-> "Rule.Validate", rule |-> rule, i |-> i,
                    msg |-> RuleValidate(rule, i)]
    /\ UNCHANGED <<routes, lockW, lockR, dflt, pc, areq, sreq, ret, calls, commits,
                   lastReg, conf, wares, wlock, faults, mctx>>

\* one call r.Content() of a Request whose body is one of BB
CallRequestContent(BB) ==
    /\ vcall = NoCall
    /\ \E b \in BB :
          vcall' = [op |-> "Request.Content", b |-> b, c |-> RequestContent(b).c,
                    err |-> RequestContent(b).err]
    /\ UNCHANGED <<routes, lockW, lockR, dflt, pc, areq, sreq, ret, calls, commits,
                   lastReg, conf, wares, wlock, faults, mctx>>

\* one call r.ValidateContent(v)
CallRequestValidateContent(BB, VV) ==
    /\ vcall = NoCall
    /\ \E b \in BB, v \in VV :
          vcall' = [op |-> "Request.ValidateContent", b |-> b, v |-> v,
                    c |-> RequestValidateContent(b, v).c,
                    err |-> RequestValidateContent(b, v).err]
    /\ UNCHANGED <<routes, lockW, lockR, dflt, pc, areq, sreq, ret, calls, commits,
                   lastReg, conf, wares, wlock, faults, mctx>>

(***************************************************************************)
(* Specifications.                                                         *)
(***************************************************************************)
\* one worker registers and serves, with the full inputs
Next ==
    \/ \E p \in Patterns, hnil \in BOOLEAN, ms \in MethodLists : Add(1, p, hnil, ms)
    \/ AddLock(1)
    \/ AddScan(1)
    \/ AddStore(1)
    \/ \E star \in BOOLEAN, s \in Paths, m \in Methods : ServeHTTP(1, star, s, m)
    \/ HandlerRLock(1)
    \/ HandlerScan(1)
    \/ HandlerOptions(1)
    \/ Serve(1)
    \/ RunHandler(1, "return")
    \/ Return(1)

Spec == Init /\ [][Next]_vars

\* every worker registers and serves, in any interleaving
NextConc ==
    \E w \in Workers :
        \/ \E p \in ConcPatterns, ms \in ConcMethodLists : Add(w, p, FALSE, ms)
        \/ AddLock(w)
        \/ AddScan(w)
        \/ AddStore(w)
        \/ \E s \in ConcPaths, m \in ConcMethods : ServeHTTP(w, FALSE, s, m)
        \/ HandlerRLock(w)
        \/ HandlerScan(w)
        \/ HandlerOptions(w)
        \/ HandlerOptionsRace(w)
        \/ Serve(w)
        \/ Return(w)

\* the concurrent runs start from a router without m.Default
InitConc == Init /\ ~dflt

SpecConc == InitConc /\ [][NextConc]_vars

\* every worker registers a handler for GET on one pattern, adds global
\* middleware and serves GET requests for it, in any interleaving; middleware
\* and handlers return normally
NextRun ==
    \E w \in Workers :
        \/ Add(w, PExact, FALSE, <<"GET">>)
        \/ AddLock(w)
        \/ AddScan(w)
        \/ AddStore(w)
        \/ Middleware(w, 0, 1)
        \/ ServeHTTP(w, FALSE, <<"/", "a">>, "GET")
        \/ HandlerRLock(w)
        \/ HandlerScan(w)
        \/ Serve(w)
        \/ RunWare(w, "true")
        \/ RunHandler(w, "return")
        \/ Return(w)

SpecRun == InitConc /\ [][NextRun]_vars

\* one worker configures the Mux, registers handlers and middleware, and serves
\* requests whose middleware and handlers return, refuse or panic
NextProc ==
    \/ Configure(TRUE, {})
    \/ \E ms \in ProcMethodLists : Add(1, PExact, FALSE, ms)
    \/ AddLock(1)
    \/ AddScan(1)
    \/ AddStore(1)
    \/ \E x \in 0 .. MaxAdds, n \in 0 .. 2 : Middleware(1, x, n)
    \/ \E s \in ProcPaths, m \in ProcMethods : ServeHTTP(1, FALSE, s, m)
    \/ HandlerRLock(1)
    \/ HandlerScan(1)
    \/ Serve(1)
    \/ \E out \in {"true", "false", "panic"} : RunWare(1, out)
    \/ \E out \in {"return", "panic"} : RunHandler(1, out)
    \/ Return(1)

SpecProc == Init /\ [][NextProc]_vars

\* one worker sets any of the error handlers and serves requests that end in
\* a 404, a 405, a panic of the handler or a 400 of a Wrap handler
NextErr ==
    \/ \E errs \in SUBSET ErrorFields : Configure(FALSE, errs)
    \/ Add(1, PExact, FALSE, <<"GET">>)
    \/ AddLock(1)
    \/ AddScan(1)
    \/ AddStore(1)
    \/ \E s \in ProcPaths, m \in ProcMethods : ServeHTTP(1, FALSE, s, m)
    \/ HandlerRLock(1)
    \/ HandlerScan(1)
    \/ Serve(1)
    \/ \E out \in {"return", "panic", "report400"} : RunHandler(1, out)
    \/ Return(1)

SpecErr == Init /\ [][NextErr]_vars

\* one worker serves every path up to MaxPathLen on a Mux without routes
NextClean ==
    \/ \E s \in AllPaths : ServeHTTP(1, FALSE, s, "GET")
    \/ HandlerRLock(1)
    \/ HandlerScan(1)
    \/ Serve(1)
    \/ Return(1)

SpecClean == InitConc /\ [][NextClean]_vars

\* one call of package val with every Set and content of the inputs
NextVal ==
    \/ CallSetValidate(Sets, Contents)
    \/ CallSetValidateEmpty(Sets, Contents)
    \/ CallValidatorValidate(SoloValidators, SoloValues)
    \/ CallRuleValidate(LengthRules, LengthValues)

SpecVal == InitConc /\ [][NextVal]_vars

\* the workers register handlers and serve requests on the earlier Mux, whose
\* lookup is the earlier Mux.handler
NextEarlier ==
    \E w \in Workers :
        \/ \E ms \in ProcMethodLists : Add(w, PExact, FALSE, ms)
        \/ AddLock(w)
        \/ AddScan(w)
        \/ AddStore(w)
        \/ \E s \in ProcPaths, m \in ProcMethods : ServeHTTP(w, FALSE, s, m)
        \/ HandlerRLock(w)
        \/ HandlerScanEarlier(w)
        \/ Serve(w)
        \/ RunHandler(w, "return")
        \/ Return(w)

SpecEarlier == InitConc /\ [][NextEarlier]_vars

\* one worker serves requests on a Mux made by New or by NewContext, whose
\* handlers are built by Wrap, while the owner may call Close; and one call
\* of Request.Content or Request.ValidateContent
NextReq ==
    \/ \E errs \in {{}, {"Error"}} : Configure(TRUE, errs)
    \/ Add(1, PExact, FALSE, <<"GET">>)
    \/ AddLock(1)
    \/ AddScan(1)
    \/ AddStore(1)
    \/ \E s \in ProcPaths, m \in ProcMethods : ServeHTTP(1, FALSE, s, m)
    \/ HandlerRLock(1)
    \/ HandlerScan(1)
    \/ Serve(1)
    \/ RunWrapper(1, WrapBodies, WrapValidators)
    \/ Close
    \/ Return(1)
    \/ CallRequestContent(WrapBodies)
    \/ CallRequestValidateContent(WrapBodies, WrapValidators)

InitReq == InitMux({NoContext, WithContext}) /\ ~dflt

SpecReq == InitReq /\ [][NextReq]_vars

(***************************************************************************)
(* Properties.                                                             *)
(***************************************************************************)
PatLen(e) == Len(String(e.matcher))
Matches(e, s) == Len(FindStringSubmatch(e.matcher, s)) > 0
\* the handler an entry holds for a method, or as its default handler for ""
Slot(e, m) ==
    IF m = "" THEN e.base
    ELSE IF m \in DOMAIN e.method THEN e.method[m] ELSE NoHandler
HandlersOf(e) == ({e.base} \cup {e.method[n] : n \in DOMAIN e.method}) \ {NoHandler}
\* worker w has served a request that went through the lookup
Served(w) ==
    /\ pc[w] = "done"
    /\ ret[w].op = "serve"
    /\ ret[w].status \notin {"400", "301"}
\* worker w has returned from a registration call
Added(w) == pc[w] = "done" /\ ret[w].op = "add"

\* C1: the route table is always sorted ascending by the length of the pattern
\* text, and a lookup selects no entry while a shorter registered pattern also
\* matches the path (the shorter one is attempted first), whatever the order
\* of the registrations.
C1_SortedByLength ==
    /\ \A i, j \in 1 .. Len(routes) : i < j => PatLen(routes[i]) <= PatLen(routes[j])
    /\ \A w \in Workers :
          Served(w) /\ ret[w].i # 0 =>
             \A k \in 1 .. Len(routes) :
                Matches(routes[k], ret[w].s) =>
                   PatLen(routes[ret[w].i]) <= PatLen(routes[k])

\* the shorter pattern was registered after the longer one, both match the
\* path, and the lookup took the shorter one
C1_Witness ==
    \E w \in Workers :
       /\ Served(w)
       /\ ret[w].i = 1
       /\ Len(routes) = 2
       /\ Matches(routes[2], ret[w].s)
       /\ PatLen(routes[1]) < PatLen(routes[2])
       /\ HandlersOf(routes[1]) = {2}
       /\ HandlersOf(routes[2]) = {1}

\* C2: under every interleaving of the workers' registration calls no two
\* entries have the same pattern text, and the one entry of a pattern holds,
\* per method and as default handler, exactly the handler of the last call
\* that registered it with success; so two concurrent calls for one new
\* pattern end in one entry that holds the handlers of both (calls for the
\* same method or two defaults are settled as C4 and C5 say).
C2_OneEntryPerPattern ==
    /\ \A i, j \in 1 .. Len(routes) :
          i # j => String(routes[i].matcher) # String(routes[j].matcher)
    /\ \A k \in DOMAIN lastReg :
          \E i \in 1 .. Len(routes) :
             String(routes[i].matcher) = k[1] /\ Slot(routes[i], k[2]) = lastReg[k]
    /\ \A i \in 1 .. Len(routes) :
          \A m \in DOMAIN routes[i].method \cup {""} :
             Slot(routes[i], m) # NoHandler =>
                <<String(routes[i].matcher), m>> \in DOMAIN lastReg

\* call 1 and call 2 ran at the same time on an empty table (call 2 started
\* later and went through the lock first), both for the same pattern, and the
\* single entry holds both handlers
C2_Witness ==
    \E w1, w2 \in Workers :
       /\ Added(w1) /\ Added(w2)
       /\ ret[w1].err = "" /\ ret[w2].err = ""
       /\ ret[w1].pat = ret[w2].pat
       /\ ret[w1].h = 1 /\ ret[w2].h = 2
       /\ ret[w1].order = 2 /\ ret[w2].order = 1
       /\ Len(routes) = 1
       /\ HandlersOf(routes[1]) = {1, 2}

\* C3: a pattern registered for two different methods has a single entry, and
\* a request whose first structural match is that entry resolves, for each of
\* the two methods, to the handler registered for it.
C3_TwoMethods ==
    \A w \in Workers :
       Served(w) /\ ret[w].i # 0 =>
          LET i == ret[w].i
              pat == String(routes[i].matcher)
          IN  \A m1, m2 \in Methods :
                 (/\ m1 # m2
                  /\ <<pat, m1>> \in DOMAIN lastReg
                  /\ <<pat, m2>> \in DOMAIN lastReg) =>
                    /\ \A j \in 1 .. Len(routes) :
                          j # i => String(routes[j].matcher) # pat
                    /\ handler(routes, ret[w].s, m1).h = lastReg[<<pat, m1>>]
                    /\ handler(routes, ret[w].s, m2).h = lastReg[<<pat, m2>>]

\* one entry got its two methods from two calls, and a request for the method
\* of the second call was dispatched to the second call's handler
C3_Witness ==
    \E w \in Workers :
       \E m2 \in Methods :
          /\ Served(w)
          /\ ret[w].i # 0
          /\ Len(routes) = 1
          /\ m2 # ret[w].method
          /\ Slot(routes[ret[w].i], ret[w].method) = 2
          /\ Slot(routes[ret[w].i], m2) = 1
          /\ ret[w].status = "handler"
          /\ ret[w].run = 2

\* C4: a registration without methods for a pattern whose entry has a default
\* handler returns the duplicate-route error and no Route, and leaves the
\* route table as it was.
C4_DuplicateDefault ==
    [][\A w \in Workers :
          (/\ pc[w] = "add_store"
           /\ pc'[w] = "done"
           /\ Len(areq[w].methods) = 0
           /\ \E i \in 1 .. Len(routes) :
                 /\ String(routes[i].matcher) = String(areq[w].p)
                 /\ routes[i].base # NoHandler) =>
             /\ ret'[w].err = "exists"
             /\ ret'[w].h = NoHandler
             /\ routes' = routes]_vars

\* a registration returned the duplicate-route error
C4_Witness ==
    \E w \in Workers :
       /\ Added(w)
       /\ ret[w].err = "exists"
       /\ Len(ret[w].methods) = 0
       /\ \E i \in 1 .. Len(routes) :
             String(routes[i].matcher) = ret[w].pat /\ routes[i].base # NoHandler

\* C5: a registration that names methods never returns the duplicate-route
\* error, and a request whose first structural match is the entry of pattern P
\* and whose method M was registered for P is dispatched to the handler of
\* the last registration of (P, M).
C5_LastWriteWins ==
    /\ \A w \in Workers :
          Added(w) /\ Len(ret[w].methods) > 0 => ret[w].err # "exists"
    /\ \A w \in Workers :
          Served(w) /\ ret[w].i # 0 =>
             LET k == <<String(routes[ret[w].i].matcher), ret[w].method>>
             IN  k \in DOMAIN lastReg =>
                    ret[w].status = "handler" /\ ret[w].run = lastReg[k]

\* GET was registered twice for the one pattern of the table, and a GET
\* request was dispatched to the handler of the second registration
C5_Witness ==
    \E w \in Workers :
       /\ Served(w)
       /\ commits = 2
       /\ Len(routes) = 1
       /\ routes[1].base = NoHandler
       /\ DOMAIN routes[1].method = {"GET"}
       /\ ret[w].i = 1
       /\ ret[w].method = "GET"
       /\ ret[w].run = 2

\* the entry has a handler for the method or a default handler
Usable(e, m) == Slot(e, m) # NoHandler \/ e.base # NoHandler

\* C6 as stated: the lookup stops at the first entry that matches; if that
\* entry has no handler usable for the method the outcome is 405; no handler
\* of a later entry is selected.
C6_Original ==
    \A w \in Workers :
       Served(w) /\ ret[w].i # 0 =>
          LET e == routes[ret[w].i]
          IN  /\ \A k \in 1 .. ret[w].i - 1 : ~Matches(routes[k], ret[w].s)
              /\ ~Usable(e, ret[w].method) => ret[w].status = "405"
              /\ ret[w].run # NoHandler => ret[w].run \in HandlersOf(e)

\* C6 (amended): the lookup stops at the first entry that matches; if that
\* entry has no handler usable for the method the outcome is 405, or the
\* automatic 204 reply when the method is OPTIONS; no handler of a later entry
\* is selected.
C6_FirstMatchWins ==
    \A w \in Workers :
       Served(w) /\ ret[w].i # 0 =>
          LET e == routes[ret[w].i]
          IN  /\ \A k \in 1 .. ret[w].i - 1 : ~Matches(routes[k], ret[w].s)
              /\ ~Usable(e, ret[w].method) =>
                    ret[w].status = IF ret[w].method = "OPTIONS" THEN "204" ELSE "405"
              /\ ret[w].run # NoHandler => ret[w].run \in HandlersOf(e)

\* the first entry that matches cannot serve the method, a later entry matches
\* too and can, and the outcome is 405
C6_Witness ==
    \E w \in Workers :
       /\ Served(w)
       /\ ret[w].i = 1
       /\ Len(routes) = 2
       /\ Matches(routes[2], ret[w].s)
       /\ ~Usable(routes[1], ret[w].method)
       /\ Usable(routes[2], ret[w].method)
       /\ ret[w].status = "405"
       /\ ret[w].run = NoHandler

\* C7: on the first structural match, for every method: the handler registered
\* for the method is dispatched if the entry has one, else the default handler
\* if the entry has one.
C7_MethodThenDefault ==
    \A w \in Workers :
       Served(w) /\ ret[w].i # 0 =>
          LET e == routes[ret[w].i]
              m == ret[w].method
          IN  IF Slot(e, m) # NoHandler
              THEN ret[w].status = "handler" /\ ret[w].run = Slot(e, m)
              ELSE e.base # NoHandler =>
                      ret[w].status = "handler" /\ ret[w].run = e.base

\* C8: when no entry matches the path the Default handler is run if it is set
\* and a 404 report is made otherwise, and no handler of a route is run.
C8_NoMatch ==
    \A w \in Workers :
       (Served(w) /\ \A k \in 1 .. Len(routes) : ~Matches(routes[k], ret[w].s)) =>
          /\ ret[w].run = NoHandler
          /\ ret[w].status = IF dflt THEN "default" ELSE "404"

\* routes are registered, none matches the path, and m.Default was run
C8_Witness ==
    \E w \in Workers :
       /\ Served(w)
       /\ Len(routes) > 0
       /\ \A k \in 1 .. Len(routes) : ~Matches(routes[k], ret[w].s)
       /\ ret[w].status = "default"

\* C9: the entry that a lookup takes as matching matches the entire path.
C9_FullMatch ==
    \A w \in Workers :
       Served(w) /\ ret[w].i # 0 =>
          FindStringSubmatch(routes[ret[w].i].matcher, ret[w].s)[1] = ret[w].s

Running(w) == pc[w] \in {"gwares", "hwares", "handler"}

\* C11: a worker that is running a middleware or a handler holds the route
\* table lock neither for reading nor for writing; so a registration that waits
\* for the lock while every other worker is running a handler (or is outside
\* any call) finds the lock free.
C11_NoLockWhileRunning ==
    /\ \A w \in Workers : Running(w) => (w \notin lockR /\ lockW # w)
    /\ \A w2 \in Workers :
          (/\ pc[w2] = "add_lock"
           /\ \A w \in Workers \ {w2} : Running(w) \/ pc[w] \in {"idle", "done"}) =>
             (lockW = 0 /\ lockR = {})

\* while one worker is still inside the handler of the first registration, a
\* second registration for the same pattern and method has completed
C11_Witness ==
    \E w1, w2 \in Workers :
       /\ pc[w1] = "handler"
       /\ ret[w1].run = 1
       /\ Added(w2)
       /\ ret[w2].err = ""
       /\ ret[w2].h = 2
       /\ Slot(routes[1], "GET") = 2

\* C12: a lookup calls RUnlock once on each of its outcomes (handler found,
\* 405, automatic OPTIONS reply, not found), and the only workers that hold
\* the read lock are those inside the table traversal.
C12_ReleasedOnce ==
    \A w \in Workers :
       /\ (pc[w] \in {"options", "serve"} \/ Running(w) \/ Served(w)) =>
             (IF pc[w] \in {"options", "serve"} THEN sreq[w].unl ELSE ret[w].unl) = 1
       /\ w \in lockR => pc[w] = "scan"

\* a lookup that ended in a 405 has returned and nobody holds the read lock
C12_Witness ==
    \E w \in Workers :
       /\ Served(w)
       /\ ret[w].status = "405"
       /\ ret[w].unl = 1
       /\ lockR = {}

\* C13: the step of the lookup that reads an entry's method map for the OPTIONS
\* reply is taken by a worker that holds the read lock.
C13_ReadsUnderLock ==
    [][\A w \in Workers : HandlerOptions(w) => w \in lockR]_vars

\* the calls Mux.process makes for handler h when nothing stops it: the global
\* list, the list of h, then h (h is NoHandler for m.Default, which has no list)
WareCalls(q) == [n \in 1 .. Len(q) |-> [k |-> "ware", id |-> q[n]]]
ExpectedCalls(h) ==
    WareCalls(wares[0])
       \o (IF h # NoHandler THEN WareCalls(wares[h]) ELSE <<>>)
       \o <<[k |-> "handler", id |-> h]>>

\* worker w is in, or has returned from, the dispatch of a request to a handler
Dispatched(w) ==
    /\ ret[w].op = "serve"
    /\ ret[w].status \in {"handler", "default"}
    /\ (Running(w) \/ pc[w] = "done")

\* C14: the calls made for a dispatched request are a prefix of: the global
\* middleware in registration order, the middleware of the selected handler in
\* registration order, the handler; every call but the last returned true, and
\* the dispatch ends only after the handler was called or after a middleware
\* that returned false (or panicked).
C14_ChainOrder ==
    \A w \in Workers :
       Dispatched(w) =>
          LET tr == ret[w].trace
              e == ExpectedCalls(ret[w].run)
          IN  /\ Len(tr) <= Len(e)
              /\ \A n \in 1 .. Len(tr) : tr[n].k = e[n].k /\ tr[n].id = e[n].id
              /\ \A n \in 1 .. Len(tr) - 1 : tr[n].out = "true"
              /\ Running(w) => \A n \in 1 .. Len(tr) : tr[n].out = "true"
              /\ pc[w] = "done" =>
                    /\ Len(tr) > 0
                    /\ \/ tr[Len(tr)].k = "handler"
                       \/ tr[Len(tr)].out \in {"false", "panic"}

\* a request passed the global middleware and was stopped by the middleware of
\* its route, which returned false: the handler was not called
C14_Witness ==
    \E w \in Workers :
       /\ Served(w)
       /\ ret[w].status = "handler"
       /\ Len(wares[0]) = 1
       /\ Len(wares[ret[w].run]) = 1
       /\ ret[w].trace = <<[k |-> "ware", id |-> wares[0][1], out |-> "true"],
                           [k |-> "ware", id |-> wares[ret[w].run][1], out |-> "false"]>>

\* C15: when Mux.process returns, a timeout context it derived has been
\* released by its cancel function, on every exit path.
C15_ContextReleased ==
    \A w \in Workers :
       (Dispatched(w) /\ pc[w] = "done") => ret[w].ctx # "open"

\* the handler of the request of worker w panicked
HandlerPanicked(w) ==
    /\ Served(w)
    /\ Len(ret[w].trace) > 0
    /\ ret[w].trace[Len(ret[w].trace)].k = "handler"
    /\ ret[w].trace[Len(ret[w].trace)].out = "panic"

\* C16: a request whose handler panicked returns from ServeHTTP with exactly
\* one error report, of status 500, and leaves no lock held; a request served
\* after a panic gets the outcome its lookup in the route table gives, and a
\* handler found for it is called.
C16_PanicIsolated ==
    \A w \in Workers :
       /\ HandlerPanicked(w) =>
             /\ ret[w].reports = <<Report("500", conf.errs)>>
             /\ lockW = 0
             /\ lockR = {}
             /\ \A x \in DOMAIN wlock : wlock[x] = {}
       /\ (faults > 0 /\ Served(w)) =>
             LET res == handler(routes, ret[w].s, ret[w].method)
                 o == Outcome(res.h, res.x, <<>>, res.f, dflt)
             IN  /\ ret[w].status = o.status
                 /\ ret[w].run = o.run
                 /\ o.status = "handler" =>
                       (/\ Len(ret[w].trace) = 1
                        /\ ret[w].trace[1].k = "handler"
                        /\ ret[w].trace[1].id = o.run)

\* after a panic was recovered, a request was dispatched to its handler, which
\* returned, and no error was reported for it
C16_Witness ==
    \E w \in Workers :
       /\ faults = 1
       /\ Served(w)
       /\ ret[w].status = "handler"
       /\ ret[w].trace = <<[k |-> "handler", id |-> ret[w].run, out |-> "return"]>>
       /\ ret[w].reports = <<>>

\* the field named after the status, for the three statuses that have one
StatusField(c) ==
    IF c = "404" THEN "Error404"
    ELSE IF c = "405" THEN "Error405"
    ELSE IF c = "500" THEN "Error500"
    ELSE "none"

\* C17: every error report goes to the handler of its status (404, 405, 500)
\* when that one is set, else to the generic handler when that one is set,
\* else to the default response; a report of another status goes to the generic
\* handler or the default response.
C17_ErrorRouting ==
    \A w \in Workers :
       \A n \in 1 .. Len(ret[w].reports) :
          LET r == ret[w].reports[n]
          IN  r.to = IF StatusField(r.c) \in conf.errs THEN StatusField(r.c)
                     ELSE IF "Error" \in conf.errs THEN "Error"
                     ELSE "default"

\* with the 500 handler and the generic handler both set, the report of a
\* panic went to the 500 handler
C17_Witness ==
    \E w \in Workers :
       /\ {"Error", "Error500"} \subseteq conf.errs
       /\ Len(ret[w].reports) = 1
       /\ ret[w].reports[1] = [c |-> "500", to |-> "Error500"]

\* C18: normalising a normalised path changes nothing: the path a request is
\* redirected to, clean(p), is its own normal form, so clean(clean(p)) =
\* clean(p) for the paths that clean changes as for those it leaves alone; and
\* the path /a/, clean with one trailing slash, is served without a redirect.
C18_CleanIdempotent ==
    \A w \in Workers :
       (pc[w] = "done" /\ ret[w].op = "serve") =>
          /\ ret[w].status = "301" =>
                (ret[w].loc # ret[w].s /\ clean(ret[w].loc) = ret[w].loc)
          /\ Served(w) => clean(clean(ret[w].s)) = ret[w].s
          /\ ret[w].s = <<"/", "a", "/">> => ret[w].status # "301"

\* the request for /./a// was redirected to /a/
C18_Witness ==
    \E w \in Workers :
       /\ pc[w] = "done"
       /\ ret[w].status = "301"
       /\ ret[w].s = <<"/", ".", "/", "a", "/">>
       /\ ret[w].loc = <<"/", "a", "/">>

\* the arguments of a registration call are among those the call must refuse
BadArgs(p, hnil, methods) ==
    \/ Len(String(p)) = 0
    \/ hnil
    \/ ~Compiles(p)
    \/ \E k \in 1 .. Len(methods) : methods[k] = ""

\* C19: a registration call with an empty pattern, a nil handler, a pattern
\* that does not compile or an empty method name never reaches the table: it
\* returns an error and no Route in the step it is made, and the table stays
\* as it was (so no method of a list with an empty name is registered); every
\* call that returns an error leaves the table unchanged.
C19_FailedAddNoEffect ==
    [][\A w \in Workers :
          /\ (pc[w] = "idle" /\ pc'[w] = "add_lock") =>
                ~BadArgs(areq'[w].p, FALSE, areq'[w].methods)
          /\ (pc[w] = "idle" /\ pc'[w] = "done" /\ ret'[w].op = "add") =>
                /\ BadArgs(ret'[w].p, ret'[w].hnil, ret'[w].methods)
                /\ ret'[w].err # ""
                /\ ret'[w].h = NoHandler
          /\ (pc[w] # "done" /\ pc'[w] = "done" /\ ret'[w].op = "add"
                /\ ret'[w].err # "") =>
                routes' = routes
          /\ \A i \in 1 .. Len(routes') :
                /\ "" \notin DOMAIN routes'[i].method
                /\ Compiles(routes'[i].matcher)
                /\ Len(String(routes'[i].matcher)) > 0]_vars

\* a call that names GET and an empty method for a registered pattern was
\* refused, and the pattern's entry has no handler for GET
C19_Witness ==
    \E w \in Workers :
       /\ Added(w)
       /\ ret[w].err = "ErrInvalidMethod"
       /\ ret[w].methods = <<"GET", "">>
       /\ \E i \in 1 .. Len(routes) :
             /\ String(routes[i].matcher) = ret[w].pat
             /\ "GET" \notin DOMAIN routes[i].method

\* a Validator fails on the content m: its field is absent and it is neither
\* optional nor of kind None, or its field is present and Validator.Validate
\* returns an error for the value
FailsOn(v, m) ==
    IF v.Name \notin DOMAIN m
    THEN ~(v.Optional \/ v.Type = KindNone)
    ELSE ValidatorValidate(v, m[v.Name]) # NoError

\* the error of a Validator that fails in that way
ErrorOn(v, m) ==
    IF v.Name \notin DOMAIN m
    THEN ErrRequired(v.Name)
    ELSE ValidatorValidate(v, m[v.Name])

\* the first element of a non-empty set of indices
First(S) == CHOOSE x \in S : \A y \in S : x <= y

\* C20 as stated: Set.Validate returns the error of the first Validator, in
\* declaration order, whose field is absent while it is neither optional nor
\* of kind None, or whose present value Validator.Validate refuses; and nil
\* when there is none.
C20_Original ==
    vcall.op = "Set.Validate" =>
       LET bad == {x \in 1 .. Len(vcall.s) : FailsOn(vcall.s[x], vcall.c)}
       IN  vcall.err = IF bad = {} THEN NoError
                       ELSE ErrorOn(vcall.s[First(bad)], vcall.c)

\* C20: as above for Validators that have a name; a Validator with an empty
\* name fails with ErrInvalidName, whether or not it is optional and whatever
\* the content holds.
C20_FirstFailure ==
    vcall.op = "Set.Validate" =>
       LET bad == {x \in 1 .. Len(vcall.s) :
                      vcall.s[x].Name = "" \/ FailsOn(vcall.s[x], vcall.c)}
       IN  vcall.err = IF bad = {} THEN NoError
                       ELSE IF vcall.s[First(bad)].Name = "" THEN ErrInvalidName
                       ELSE ErrorOn(vcall.s[First(bad)], vcall.c)

\* the first Validator is optional and its field is absent, the second is
\* required and its field is absent too: the error is that of the second
C20_Witness ==
    /\ vcall.op = "Set.Validate"
    /\ Len(vcall.s) = 2
    /\ vcall.s[1].Name = "a" /\ vcall.s[1].Optional /\ vcall.s[1].Type = KindString
    /\ vcall.s[2].Name = "b" /\ ~vcall.s[2].Optional /\ vcall.s[2].Type = KindInt
    /\ DOMAIN vcall.c = {}
    /\ vcall.err = ErrRequired("b")

\* the Rules of v that return an error for the value i
FailingRules(v, i) == {x \in 1 .. Len(v.Rules) : RuleValidate(v.Rules[x], i) # ""}

\* the kind check of v.Validate(i) returns an error
KindFails(v, i) == v.Type > KindNone /\ KindCheck(v, i) # NoError

\* C21: Validator.Validate checks the declared kind before any Rule: when the
\* kind check fails it returns that error and has evaluated no Rule; otherwise
\* it evaluates the Rules in declaration order up to and including the first
\* one that returns an error, and returns that error prefixed with the field
\* name, or nil when every Rule passes.
C21_KindBeforeRules ==
    (vcall.op = "Validator.Validate" /\ vcall.err # Panic) =>
       LET v == vcall.v
           i == vcall.i
           bad == FailingRules(v, i)
       IN  IF KindFails(v, i)
           THEN /\ vcall.evals = <<>>
                /\ vcall.err = KindCheck(v, i)
           ELSE IF bad = {}
           THEN /\ vcall.evals = [x \in 1 .. Len(v.Rules) |-> x]
                /\ vcall.err = NoError
           ELSE /\ vcall.evals = [x \in 1 .. First(bad) |-> x]
                /\ vcall.err = ErrRule(v.Name, RuleValidate(v.Rules[First(bad)], i))
                /\ ErrorText(vcall.err) =
                      "'a': " \o RuleValidate(v.Rules[First(bad)], i)

\* both Rules of a Number Validator refuse 1.5 and the first one is reported
C21_Witness ==
    /\ vcall.op = "Validator.Validate"
    /\ vcall.v.Type = KindNumber
    /\ vcall.v.Rules = <<Max(1), Min(2)>>
    /\ vcall.i = Num(3)
    /\ vcall.evals = <<1>>
    /\ vcall.err = ErrRule("a", "cannot be more than")

\* the names under which an error may speak of the kind of the value i: the
\* name of its kind, the name of its Go type, and 'float' for a number
ActualNames(i) ==
    CASE i.t = "null" -> {"null"}
      [] i.t = "bool" -> {"boolean", "bool"}
      [] i.t = "string" -> {"string"}
      [] i.t = "number" -> {"number", "float", "float64"}
      [] i.t = "object" -> {"object", "map[string]interface {}"}
      [] OTHER -> {"[]object", "[]interface {}"}

\* C22: when Validator.Validate fails because the type of the value does not
\* fit the declared kind, the error names the declared kind of the Validator
\* as the expected kind and the kind of the value as the actual kind.
C22_KindErrorNames ==
    (vcall.op = "Validator.Validate" /\ vcall.err.e = "kind") =>
       /\ vcall.err.expected = KindName(vcall.v.Type)
       /\ vcall.err.got \in ActualNames(vcall.i)

\* the number i, counted in halves, has a fractional part
Fractional(i) == i.n % 2 = 1

\* C23: for every number the Integer rule passes iff the number has no
\* fractional part and the Float rule passes iff it has one, whatever its sign
\* and magnitude.
C23_IntegerOrFloat ==
    (/\ vcall.op = "Validator.Validate"
     /\ vcall.v.Type = KindAny
     /\ vcall.i.t = "number") =>
       /\ vcall.v.Rules = <<Integer>> => (vcall.err = NoError <=> ~Fractional(vcall.i))
       /\ vcall.v.Rules = <<Float>> => (vcall.err = NoError <=> Fractional(vcall.i))

C25_EmptyIsValid ==
    vcall.op = "Set.ValidateEmpty" =>
       vcall.err = IF DOMAIN vcall.c = {} THEN NoError
                   ELSE SetValidate(vcall.s, vcall.c)

\* a Set with a required field passes the empty content, which Set.Validate
\* refuses
C25_Witness ==
    /\ vcall.op = "Set.ValidateEmpty"
    /\ Len(vcall.s) = 1
    /\ vcall.s[1].Name = "a" /\ ~vcall.s[1].Optional /\ vcall.s[1].Type = KindString
    /\ DOMAIN vcall.c = {}
    /\ vcall.err = NoError
    /\ SetValidate(vcall.s, vcall.c) = ErrRequired("a")

\* for a content that holds fields ValidateEmpty returns the error of Validate
C25_WitnessNonEmpty ==
    /\ vcall.op = "Set.ValidateEmpty"
    /\ DOMAIN vcall.c = {"b"}
    /\ vcall.err = ErrRequired("a")

\* C26: validation raises no runtime fault: every call of Validate returns
\* nil or an error value.
C26_NoFault ==
    vcall.op \in {"Set.Validate", "Set.ValidateEmpty", "Validator.Validate"} =>
       vcall.err.e # "panic"

\* the calls of Wrap handlers that worker w made for the request it served
WrapperCalls(w) ==
    {ret[w].trace[x] : x \in {y \in 1 .. Len(ret[w].trace) :
                                 ret[w].trace[y].k = "wrapper"}}

\* the body of the Request decodes and the Content passes the Validator
BodyPasses(b, v) ==
    /\ RequestContent(b).err = NoError
    /\ SetValidate(v.s, RequestContent(b).c) = NoError

\* a report of the status c was made for the request of worker w
Reported(w, c) == \E x \in 1 .. Len(ret[w].reports) : ret[w].reports[x].c = c

C27_WitnessNilBody ==
    \E e \in WrapperCalls(1) :
       /\ ~e.v.nil
       /\ e.b = BodyNil
       /\ e.user
       /\ SetValidate(e.v.s, e.c) = ErrRequired("a")

\* C28: Request.Content and Request.ValidateContent return ErrNoBody whenever
\* the body of the Request is nil or holds no bytes.
C28_NoBodyError ==
    (/\ vcall.op \in {"Request.Content", "Request.ValidateContent"}
     /\ vcall.b.k \in {"nil", "empty"}) => vcall.err = ErrNoBody

\* the Request of worker w has been handed to a middleware, to a handler or to
\* an error handler
Handed(w) ==
    \/ pc[w] \in {"gwares", "hwares", "handler"}
    \/ ret[w].op = "serve" /\ (ret[w].trace # <<>> \/ ret[w].reports # <<>>)

\* C29: Request.Context() of every Request handed to a handler, a middleware
\* or an error handler is not nil, also on a Mux without a base context.
C29_ContextNotNil ==
    \A w \in Workers : Handed(w) => ret[w].rctx # "nil"

\* on a Mux made by NewContext the Request of a running handler has a context
C29_WithBase ==
    \A w \in Workers : (Handed(w) /\ mctx.root # "nil") => ret[w].rctx = "mux"

\* the context that the running handler or middleware of worker w was given is
\* cancelled: the base context, or the context that Mux.process derived from
\* it with the Timeout, after the base context has been cancelled
RunningCancelled(w) == IsCancelled(ret[w].hctx, mctx)

\* after Close on a Mux with a base context every running handler has a
\* cancelled context, whether it ran when Close was called or started later
ClosedCancelsAll ==
    (mctx.closed /\ mctx.root # "nil") =>
       \A w \in Workers : pc[w] \in {"gwares", "hwares", "handler"} => RunningCancelled(w)

\* a step of Close leaves every worker where it is; on a Mux without a base
\* context it leaves m.ctx nil
CloseStep ==
    mctx' # mctx =>
       /\ pc' = pc /\ sreq' = sreq /\ ret' = ret
       /\ mctx'.closed
       /\ mctx.root = "nil" => mctx'.root = "nil"

\* C30: on a Mux made with a root context, after Close the context given to
\* every handler in flight and to every handler dispatched later is cancelled;
\* Close does not stop a running handler; on a Mux without a root context
\* Close changes nothing and returns nil.
C30_CloseCancels == []ClosedCancelsAll /\ [][CloseStep]_vars

\* a handler that was running when Close was called is still running, with a
\* cancelled context
C30_Witness ==
    /\ mctx.closed
    /\ mctx.root = "cancelled"
    /\ 1 \in mctx.during
    /\ pc[1] = "handler"
    /\ RunningCancelled(1)

\* a handler dispatched after Close is running with a cancelled context
C30_WitnessLater ==
    /\ mctx.closed
    /\ mctx.root = "cancelled"
    /\ 1 \notin mctx.during
    /\ pc[1] = "handler"
    /\ RunningCancelled(1)

\* C31: Length.Validate fails for a string or collection shorter than Min; Max
\* is ignored only when it is zero or less than Min, and in every other case,
\* Max equal to Min included, a value longer than Max fails.
C31_LengthBounds ==
    (/\ vcall.op = "Rule.Validate"
     /\ vcall.rule.r = "Length"
     /\ vcall.i.t \in {"string", "list", "object"}) =>
       LET l == vcall.rule
           x == vcall.i.n
           ignored == l.b = 0 \/ l.b < l.a
       IN  vcall.msg # "" <=> (x < l.a \/ (~ignored /\ x > l.b))

\* the dynamic type of the value i matches the kind k
KindMatches(k, i) ==
    CASE k \in {KindAny, KindNone} -> TRUE
      [] k = KindNumber -> i.t = "number"
      [] k = KindInt -> i.t = "number" /\ ~Fractional(i)
      [] k = KindString -> i.t = "string"
      [] k = KindBool -> i.t = "bool"
      [] k = KindObject -> i.t = "object"
      [] k = KindList -> i.t = "list"
      [] k = KindListNumber -> i.t = "list" /\ (i.n = 0 \/ i.e = "number")
      [] k = KindListString -> i.t = "list" /\ (i.n = 0 \/ i.e = "string")
      [] OTHER -> FALSE

\* C32: without Rules, Validator.Validate accepts a value iff its dynamic type
\* matches the declared kind; Int accepts exactly the integral numbers, the
\* list kinds accept exactly the lists of such elements, and null is refused
\* by every kind above None.
C32_KindAcceptance ==
    (vcall.op = "Validator.Validate" /\ vcall.v.Rules = <<>>) =>
       (vcall.err = NoError <=> KindMatches(vcall.v.Type, vcall.i))

\* C33: every return path of the earlier Mux.handler releases the read lock
\* it acquired, the 405 return included: the read lock is held only by
\* workers inside the traversal, so a later registration gets the write lock.
C33_EarlierReleases ==
    \A x \in lockR : x \in Workers /\ pc[x] = "scan"

\* a registration waits for the write lock that a 405 lookup left read-locked,
\* while no worker is inside a lookup
EarlierBlocked ==
    /\ 0 \in lockR
    /\ \E w \in Workers : pc[w] = "add_lock"
    /\ \A w \in Workers : pc[w] # "scan"

\* C34: when a middleware panics during a dispatch, the read lock of its list
\* is released by the time the dispatch returns: a middleware list is
\* read-locked only by the workers that are walking it, so a later
\* Mux.Middleware or Route.Middleware gets its write lock.
C34_WaresLockReleased ==
    \A x \in DOMAIN wlock : \A v \in wlock[x] :
       v \in Workers /\ pc[v] \in {"gwares", "hwares"}

(***************************************************************************)
(* Mux.Middleware called by several workers while requests are served.     *)
(***************************************************************************)
\* m.Default is set, so that every request is dispatched through Mux.process
InitWares == Init /\ dflt

\* every worker adds one function of its own to the global list, or none,
\* and serves requests to m.Default
NextWares ==
    \E w \in Workers :
        \/ \E ws \in {<<>>, <<w>>} : MiddlewareCall(w, ws)
        \/ MiddlewareNew(w)
        \/ MiddlewareAppend(w)
        \/ \E s \in ConcPaths : ServeHTTP(w, FALSE, s, "GET")
        \/ HandlerRLock(w)
        \/ HandlerScan(w)
        \/ Serve(w)
        \/ \E out \in {"true", "panic"} : RunWare(w, out)
        \/ RunHandler(w, "return")
        \/ Return(w)

SpecWares == InitWares /\ [][NextWares]_vars

\* the functions in the global list
GlobalWares == {wares[0][k] : k \in 1 .. Len(wares[0])}

\* no Mux.Middleware call is under way, and the functions of every call that
\* has returned are in the global list
AllWaresKept ==
    (\A v \in Workers : pc[v] \notin {"mw_new", "mw_lock"})
       => \A w \in Workers :
             (pc[w] = "done" /\ ret[w].op = "middleware")
                => \A k \in 1 .. Len(ret[w].ws) : ret[w].ws[k] \in GlobalWares

\* a step that changes the global list is taken while no worker walks it
WaresWrittenUnread == wares'[0] # wares[0] => wlock[0] = {}

\* C35: for any interleaving of Mux.Middleware calls, the first ones of the
\* Mux included, and of dispatches, the global list holds every function
\* passed to every call once the calls have returned, and the list is never
\* changed while a dispatch reads it.
C35_MiddlewareSafe == []AllWaresKept /\ [][WaresWrittenUnread]_vars

\* the handler that the last successful registration installed for the slot
\* (entry, method or default) that the request of worker w resolved to
InstalledFor(w) ==
    LET e == routes[ret[w].i]
        m == IF Slot(e, ret[w].method) # NoHandler THEN ret[w].method ELSE ""
    IN  lastReg[<<String(e.matcher), m>>]

\* the middleware functions called in the dispatch of worker w
CalledWares(w) ==
    {ret[w].trace[n].id : n \in {k \in 1 .. Len(ret[w].trace) : ret[w].trace[k].k = "ware"}}

\* the dispatch of worker w got as far as the handler
HandlerCalled(w) ==
    \E n \in 1 .. Len(ret[w].trace) : ret[w].trace[n].k = "handler"

\* C36: a request is dispatched to the handler that the last successful
\* registration of its slot installed; the middleware added through the Route
\* of that registration has all run when the handler is called, and no
\* middleware added through the Route of any other registration runs for the
\* request, the Route of an earlier registration of the same method included.
C36_RouteWares ==
    \A w \in Workers :
       (Served(w) /\ ret[w].status = "handler") =>
          LET h == InstalledFor(w)
          IN  /\ ret[w].run = h
              /\ \A x \in DOMAIN wares \ {0, h} :
                    \A k \in 1 .. Len(wares[x]) : wares[x][k] \notin CalledWares(w)
              /\ HandlerCalled(w) =>
                    \A k \in 1 .. Len(wares[h]) : wares[h][k] \in CalledWares(w)

\* GET was registered twice for one pattern, the Route of the first call got a
\* middleware, and a GET request ran the handler of the second call only
C36_Witness ==
    \E w \in Workers :
       /\ Served(w)
       /\ ret[w].status = "handler"
       /\ ret[w].method = "GET"
       /\ Len(routes) = 1
       /\ routes[1].base = NoHandler
       /\ ret[w].run = 2
       /\ Len(wares[1]) > 0
       /\ ret[w].trace = <<[k |-> "handler", id |-> 2, out |-> "return"]>>

\* a request ran the middleware of the Route of its handler, then the handler
C36_WitnessRuns ==
    \E w \in Workers :
       /\ Served(w)
       /\ ret[w].status = "handler"
       /\ Len(wares[ret[w].run]) > 0
       /\ HandlerCalled(w)
       /\ \A k \in 1 .. Len(wares[ret[w].run]) : wares[ret[w].run][k] \in CalledWares(w)

\* worker w has served an OPTIONS request whose first matching entry has no
\* handler registered for OPTIONS
OptionsUnhandled(w) ==
    /\ Served(w)
    /\ ret[w].method = "OPTIONS"
    /\ ret[w].i # 0
    /\ Slot(routes[ret[w].i], "OPTIONS") = NoHandler

C37_WitnessStar ==
    \E w \in Workers :
       /\ OptionsUnhandled(w)
       /\ DOMAIN routes[ret[w].i].method = {}
       /\ ret[w].status = "204"
       /\ ret[w].a = <<"*">>

(***************************************************************************)
(* Patterns of equal length in a table of more than six entries.           *)
(***************************************************************************)
\* "^/a" and "/a$", of equal length, match the path /a; "/1" is shorter than
\* both and does not match it; the others are longer
TieSeq ==
    <<<<Bol, Lit("/"), Lit("a")>>,
      <<Lit("/"), Lit("a"), Eol>>,
      PExact,
      <<Lit("/"), Grp({"a"}, "a+")>>,
      <<Bol, Lit("/"), Grp({"a"}, "a+")>>,
      <<Lit("/"), Grp({"a"}, "a+"), Eol>>,
      <<Lit("/"), Lit("1")>>>>

\* the patterns call k may register: the k-th of the list, from either end
TiePatterns(k) ==
    IF k \in DOMAIN TieSeq THEN {TieSeq[k], TieSeq[Len(TieSeq) + 1 - k]} ELSE {}

\* one worker registers the patterns, each with a default handler, and serves
\* GET /a
NextTies ==
    \/ \E p \in TiePatterns(calls + 1) : AddDefault(1, p)
    \/ ServeHTTP(1, FALSE, <<"/", "a">>, "GET")
    \/ HandlerRLock(1)
    \/ HandlerScan(1)
    \/ Serve(1)
    \/ RunHandler(1, "return")
    \/ Return(1)

SpecTies == InitConc /\ [][NextTies]_vars

\* C38: of two registered patterns of equal length the one registered first
\* stands first in the table, whatever the number of entries; so when both
\* match a path, the lookup tries the one registered first and selects it.
\* (Every entry of this specification holds the handler of the call that
\* created it, and calls are numbered in their order.)
C38_TiesInOrder ==
    /\ \A i, j \in 1 .. Len(routes) :
          (i < j /\ PatLen(routes[i]) = PatLen(routes[j]))
             => routes[i].base < routes[j].base
    /\ \A w \in Workers :
          (Served(w) /\ ret[w].i # 0) =>
             \A j \in 1 .. Len(routes) :
                (/\ Matches(routes[j], ret[w].s)
                 /\ PatLen(routes[j]) = PatLen(routes[ret[w].i])
                 /\ j # ret[w].i) => ret[w].run < routes[j].base

\* C39: a registration without methods for a pattern whose entry has method
\* handlers and no default handler succeeds and returns its Route; the entry
\* gets the call's handler as default handler, keeps its method handlers, and
\* the table gets no new entry and changes nowhere else.
C39_DefaultOnMethodEntry ==
    [][\A w \in Workers :
          (/\ pc[w] = "add_store"
           /\ pc'[w] = "done"
           /\ Len(areq[w].methods) = 0) =>
             \A i \in 1 .. Len(routes) :
                (/\ String(routes[i].matcher) = String(areq[w].p)
                 /\ routes[i].base = NoHandler
                 /\ DOMAIN routes[i].method # {}) =>
                   /\ ret'[w].err = ""
                   /\ ret'[w].h = areq[w].v
                   /\ Len(routes') = Len(routes)
                   /\ routes'[i].base = areq[w].v
                   /\ routes'[i].method = routes[i].method
                   /\ routes'[i].matcher = routes[i].matcher
                   /\ \A j \in 1 .. Len(routes) : j # i => routes'[j] = routes[j]]_vars

\* a registration without methods succeeded on an entry that had handlers for
\* GET and POST from an earlier call: the entry holds them and the new default
\* handler
C39_Witness ==
    \E w \in Workers :
       /\ Added(w)
       /\ ret[w].err = ""
       /\ Len(ret[w].methods) = 0
       /\ ret[w].h = 2
       /\ Len(routes) = 1
       /\ String(routes[1].matcher) = ret[w].pat
       /\ routes[1].base = 2
       /\ DOMAIN routes[1].method = {"GET", "POST"}
       /\ \A n \in DOMAIN routes[1].method : routes[1].method[n] = 1

====
